---- MODULE Spec2Model ----
(***************************************************************************)
(* NORMAEX 2.0: the document executor (services/executor.py) and the       *)
(* rule-based action planner (services/ai_structural.py).                  *)
(*                                                                         *)
(* Python values are modelled as follows.                                  *)
(*   str      a tuple of one-character strings, so that lower(),           *)
(*            startswith(), split() and int() are computed, not assumed    *)
(*   dict     a function whose DOMAIN is the set of keys present           *)
(*   number   a length in hundredths of the written unit: 3.0 cm is 300,   *)
(*            1.25 cm is 125, line spacing 1.5 is 150, 12 pt is 1200       *)
(*            lengths held by the document are in EMU, as docx.shared      *)
(*            keeps them (Cm and Pt convert)                               *)
(*   NaN      a params value that is no number (a str where a float is     *)
(*            expected); NoneNum is None in a numeric field; both are      *)
(*            below every number the model uses                            *)
(*   None     the string "None" in a field that holds strings              *)
(***************************************************************************)
EXTENDS Integers, Sequences, FiniteSets, TLC

VARIABLES
    doc,            \* self.doc: [sections, paragraphs]
    doc_init,       \* history: the document as Document(doc_path) loaded it
    action_plan,    \* the argument of execute_action_plan
    sorted_plan,    \* the local sorted_plan
    idx,            \* number of loop iterations of execute_action_plan done
    results,        \* the local results
    actions_log,    \* self.actions_log
    pc,             \* "idle" | "loop" | "returned" | "raised"
    calls,          \* execute_action_plan calls started on this executor
    doc_at_end,     \* history: self.doc at the end of each call so far
    inconsistencies,\* planner argument: the rule-based issues
    abnt_issues,    \* planner argument: the AI issues
    structure,      \* planner argument: the extracted structure
    plan_out,       \* the list the last planner call returned
    first_out,      \* history: the list the first planner call returned
    complete_vision,\* the argument of analyze_document_with_ai
    ai,             \* how the AI collaborator behaves in this run
    analysis,       \* how the last analyze_document_with_ai call ended
    first_issues,   \* history: the issues the first detector call returned
    pdf,            \* the rendered document: what fitz.open(pdf_path) reads
    validation,     \* what validate_document_quality returned for pdf
    formatting,     \* what validate_formatting returned for pdf
    response,       \* how the /validate endpoint answered for pdf
    fs,             \* the paths that exist under uploads/ and processed/
    fs_init,        \* history: the paths that existed before any request
    reqs            \* the requests being served, each with its locals

vars == <<doc, doc_init, action_plan, sorted_plan, idx, results, actions_log, pc, calls,
          doc_at_end, inconsistencies, abnt_issues, structure,
          plan_out, first_out, complete_vision, ai, analysis, first_issues,
          pdf, validation, formatting, response, fs, fs_init, reqs>>

execVars == <<doc, doc_init, action_plan, sorted_plan, idx, results, actions_log, pc,
              calls, doc_at_end>>

planVars == <<inconsistencies, abnt_issues, structure, plan_out, first_out>>

analyzeVars == <<complete_vision, ai, analysis, first_issues>>

validateVars == <<pdf, validation, formatting, response>>

pipeVars == <<fs, fs_init, reqs>>

(***************************************************************************)
(* Bounds of the model.                                                    *)
(***************************************************************************)
MaxParas == 2
MaxSecs == 2
MaxPlan == 3
MaxIssues == 3
MaxCalls == 2
MaxVisionParas == 2
MaxBlocks == 2
MaxPages == 2

\* self.tolerance_cm of the validator, in hundredths of a centimetre
tolerance_cm == 30

None == "None"
NoneStr == <<"None">>
NoneNum == 0 - 1
NaN == 0 - 2

(***************************************************************************)
(* Strings.                                                                *)
(***************************************************************************)
UpperCase == <<"A", "B", "C", "D", "E", "F", "G", "H", "I", "J", "K", "L", "M",
               "N", "O", "P", "Q", "R", "S", "T", "U", "V", "W", "X", "Y", "Z",
               "Í">>
LowerCase == <<"a", "b", "c", "d", "e", "f", "g", "h", "i", "j", "k", "l", "m",
               "n", "o", "p", "q", "r", "s", "t", "u", "v", "w", "x", "y", "z",
               "í">>

\* str.lower() on one character
LowerChar(c) ==
    IF \E i \in 1..Len(UpperCase) : UpperCase[i] = c
    THEN LowerCase[CHOOSE i \in 1..Len(UpperCase) : UpperCase[i] = c]
    ELSE c

\* str.lower()
Lower(s) == [i \in 1..Len(s) |-> LowerChar(s[i])]

\* str.startswith(prefix)
StartsWith(s, prefix) ==
    /\ Len(s) >= Len(prefix)
    /\ SubSeq(s, 1, Len(prefix)) = prefix

IsSpace(c) == c \in {" ", "\t", "\n"}

\* bool(str.strip()): some character is not whitespace
StripTruthy(s) == \E i \in 1..Len(s) : ~IsSpace(s[i])

\* str.split("_")[1]: the text between the first and the second underscore;
\* the caller has checked startswith("..._"), so there is a first underscore
SecondField(s) ==
    LET us == {i \in 1..Len(s) : s[i] = "_"}
        first == CHOOSE i \in us : \A j \in us : i <= j
        rest == {i \in us : i > first}
        stop == IF rest = {} THEN Len(s) + 1
                ELSE CHOOSE i \in rest : \A j \in rest : i <= j
    IN SubSeq(s, first + 1, stop - 1)

Digits == <<"0", "1", "2", "3", "4", "5", "6", "7", "8", "9">>
IsDigit(c) == \E i \in 1..10 : Digits[i] = c
DigitVal(c) == (CHOOSE i \in 1..10 : Digits[i] = c) - 1

RECURSIVE DigitsVal(_)
DigitsVal(s) ==
    IF Len(s) = 0 THEN 0
    ELSE 10 * DigitsVal(SubSeq(s, 1, Len(s) - 1)) + DigitVal(s[Len(s)])

\* int(str): [ok, val]; ok = FALSE is the ValueError of int()
ParseInt(s) ==
    LET signed == Len(s) > 0 /\ s[1] \in {"-", "+"}
        body == IF signed THEN SubSeq(s, 2, Len(s)) ELSE s
    IN IF Len(body) = 0 \/ \E i \in 1..Len(body) : ~IsDigit(body[i])
       THEN [ok |-> FALSE, val |-> 0]
       ELSE [ok |-> TRUE,
             val |-> IF signed /\ s[1] = "-" THEN 0 - DigitsVal(body)
                     ELSE DigitsVal(body)]

S_heading == <<"h", "e", "a", "d", "i", "n", "g">>
S_titulo == <<"t", "í", "t", "u", "l", "o">>
S_section_ == <<"s", "e", "c", "t", "i", "o", "n", "_">>
S_paragraph_ == <<"p", "a", "r", "a", "g", "r", "a", "p", "h", "_">>
S_all_body == <<"a", "l", "l", "_", "b", "o", "d", "y">>
S_all == <<"a", "l", "l">>
S_all_sections == <<"a", "l", "l", "_", "s", "e", "c", "t", "i", "o", "n", "s">>

(***************************************************************************)
(* docx.shared: Cm(x) and Pt(x) are int(x * 360000) and int(x * 12700) EMU; *)
(* x is in hundredths here. raised = TRUE is the exception int() or the    *)
(* multiplication raises on a value that is no number.                     *)
(***************************************************************************)
Cm(x) == IF x = NaN THEN [raised |-> TRUE, emu |-> 0]
         ELSE [raised |-> FALSE, emu |-> x * 3600]

Pt(x) == IF x = NaN THEN [raised |-> TRUE, emu |-> 0]
         ELSE [raised |-> FALSE, emu |-> x * 127]

\* dict.get(key, default)
Get(d, key, default) == IF key \in DOMAIN d THEN d[key] ELSE default

\* Paragraph.text: the texts of the runs, joined
RECURSIVE JoinRuns(_)
JoinRuns(runs) ==
    IF Len(runs) = 0 THEN <<>>
    ELSE runs[1].text \o JoinRuns(Tail(runs))

ParaText(p) == JoinRuns(p.runs)

\* the test the executor repeats: the style is a heading
IsHeading(p) ==
    \/ StartsWith(Lower(p.style), S_heading)
    \/ StartsWith(Lower(p.style), S_titulo)

(***************************************************************************)
(* Exceptions and outcomes. An outcome is what a call did to the document  *)
(* and how it ended: a returned message or a raised exception.             *)
(***************************************************************************)
Exc(type, text, n) == [type |-> type, text |-> text, n |-> n]
Msg(text, n) == [type |-> "str", text |-> text, n |-> n]

Raise(d, e) == [doc |-> d, raised |-> TRUE, value |-> e]
Return(d, m) == [doc |-> d, raised |-> FALSE, value |-> m]

\* list[i] of Python for a 0-based, possibly negative index i: the 1-based
\* position, or 0 for the IndexError
PyIndex(len, i) ==
    IF i >= 0 /\ i < len THEN i + 1
    ELSE IF i < 0 /\ i >= 0 - len THEN len + i + 1
    ELSE 0

(***************************************************************************)
(* fix_margin                                                              *)
(***************************************************************************)
MarginKeys == <<"top", "bottom", "left", "right">>

\* the four "if key in params: section.<key>_margin = Cm(params[key])" of one
\* section, from the k-th on; an exception leaves the earlier ones assigned
RECURSIVE SetMargins(_, _, _)
SetMargins(sec, params, k) ==
    IF k > Len(MarginKeys) THEN [sec |-> sec, raised |-> FALSE]
    ELSE LET key == MarginKeys[k] IN
         IF key \notin DOMAIN params THEN SetMargins(sec, params, k + 1)
         ELSE IF Cm(params[key]).raised THEN [sec |-> sec, raised |-> TRUE]
         ELSE SetMargins([sec EXCEPT ![key] = Cm(params[key]).emu],
                         params, k + 1)

\* the loop of the all_sections branch, from section i on
RECURSIVE AllSections(_, _, _)
AllSections(secs, params, i) ==
    IF i > Len(secs) THEN [secs |-> secs, raised |-> FALSE]
    ELSE LET r == SetMargins(secs[i], params, 1) IN
         IF r.raised THEN [secs |-> [secs EXCEPT ![i] = r.sec], raised |-> TRUE]
         ELSE AllSections([secs EXCEPT ![i] = r.sec], params, i + 1)

fix_margin(d, target, params) ==
    IF StartsWith(target, S_section_) THEN
        LET n == ParseInt(SecondField(target)) IN
        IF ~n.ok THEN Raise(d, Exc("ValueError", "invalid literal for int()", 0))
        ELSE IF n.val >= Len(d.sections)
        THEN Raise(d, Exc("ValueError", "Seção {n} não existe no documento", n.val))
        ELSE LET pos == PyIndex(Len(d.sections), n.val) IN
             IF pos = 0
             THEN Raise(d, Exc("IndexError", "list index out of range", 0))
             ELSE LET r == SetMargins(d.sections[pos], params, 1)
                      d2 == [d EXCEPT !.sections[pos] = r.sec]
                  IN IF r.raised
                     THEN Raise(d2, Exc("ValueError", "invalid literal for int()", 0))
                     ELSE Return(d2, Msg("Margens ajustadas na seção {n}", n.val))
    ELSE IF target = S_all_sections THEN
        LET r == AllSections(d.sections, params, 1)
            d2 == [d EXCEPT !.sections = r.secs]
        IN IF r.raised
           THEN Raise(d2, Exc("ValueError", "invalid literal for int()", 0))
           ELSE Return(d2, Msg("Margens ajustadas em {count} seções",
                               Len(d.sections)))
    ELSE Raise(d, Exc("ValueError", "Target inválido para fix_margin", 0))

(***************************************************************************)
(* fix_font, fix_spacing, fix_alignment, fix_indent: the same three target *)
(* branches (all_body, paragraph_<N>, all) around one assignment each.     *)
(***************************************************************************)
\* "for run in para.runs: run.font.name = ...; run.font.size = Pt(...)", from
\* run j on; Pt raises after the name of that run is assigned
RECURSIVE SetRuns(_, _, _, _)
SetRuns(runs, font_name, font_size, j) ==
    IF j > Len(runs) THEN [runs |-> runs, raised |-> FALSE]
    ELSE LET named == [runs EXCEPT ![j].font_name = font_name] IN
         IF Pt(font_size).raised THEN [runs |-> named, raised |-> TRUE]
         ELSE SetRuns([named EXCEPT ![j].font_size = Pt(font_size).emu],
                      font_name, font_size, j + 1)

alignment_map ==
    [justify |-> "JUSTIFY", left |-> "LEFT", center |-> "CENTER", right |-> "RIGHT"]

\* the value each operation reads from params, with its default
font_name_of(params) == Get(params, "name", "Arial")
font_size_of(params) == Get(params, "size", 1200)
line_spacing_of(params) == Get(params, "line_spacing", 150)
alignment_of(params) ==
    Get(alignment_map, Get(params, "alignment", "justify"), "JUSTIFY")
first_line_of(params) == Get(params, "first_line", 125)

\* the body of the loops of fix_font
SetFont(p, params) ==
    LET r == SetRuns(p.runs, font_name_of(params), font_size_of(params), 1)
    IN [para |-> [p EXCEPT !.runs = r.runs], raised |-> r.raised]

\* the body of the loops of fix_spacing; the assignment of a value that is
\* no number raises
SetSpacing(p, params) ==
    IF line_spacing_of(params) = NaN THEN [para |-> p, raised |-> TRUE]
    ELSE [para |-> [p EXCEPT !.line_spacing = line_spacing_of(params)],
          raised |-> FALSE]

\* an assignment of the alignment that resets the indent with it
SetAlignmentAndIndent(p, params) ==
    [para |-> [p EXCEPT !.alignment = alignment_of(params),
                        !.first_line_indent = NoneNum],
     raised |-> FALSE]

\* the body of the loops of fix_alignment
SetAlignment(p, params) ==
    [para |-> [p EXCEPT !.alignment = alignment_of(params)], raised |-> FALSE]

\* an indent that is added to the one the paragraph has
SetIndentAdding(p, params) ==
    IF Cm(first_line_of(params)).raised THEN [para |-> p, raised |-> TRUE]
    ELSE [para |-> [p EXCEPT !.first_line_indent =
                                 (IF @ = NoneNum THEN 0 ELSE @)
                                 + Cm(first_line_of(params)).emu],
          raised |-> FALSE]

\* the body of the loops of fix_indent
SetIndent(p, params) ==
    IF Cm(first_line_of(params)).raised THEN [para |-> p, raised |-> TRUE]
    ELSE [para |-> [p EXCEPT !.first_line_indent = Cm(first_line_of(params)).emu],
          raised |-> FALSE]

\* the body of the loop of operation op on one paragraph
SetPara(op, p, params) ==
    CASE op = "fix_font" -> SetFont(p, params)
      [] op = "fix_spacing" -> SetSpacing(p, params)
      [] op = "fix_alignment" -> SetAlignment(p, params)
      [] op = "fix_indent" -> SetIndent(p, params)

\* an all_body that knows the headings of one language only
BodySelectedEnglishOnly(op, p) ==
    /\ ~StartsWith(Lower(p.style), S_heading)
    /\ op = "fix_indent" => StripTruthy(ParaText(p))

\* the if of the all_body loop of operation op
BodySelected(op, p) ==
    /\ ~IsHeading(p)
    /\ op = "fix_indent" => StripTruthy(ParaText(p))

\* an all that passes over the headings as all_body does
AllSelectedLikeBody(op, p) ==
    /\ ~IsHeading(p)
    /\ op = "fix_indent" => StripTruthy(ParaText(p))

\* the if of the all loop of operation op
AllSelected(op, p) == op = "fix_indent" => StripTruthy(ParaText(p))

\* the paragraphs a branch loops over and assigns to
Selected(op, branch, p) ==
    IF branch = "all_body" THEN BodySelected(op, p) ELSE AllSelected(op, p)

\* one of the two loops over self.doc.paragraphs, from paragraph i on
RECURSIVE LoopParas(_, _, _, _, _)
LoopParas(op, branch, paras, params, i) ==
    IF i > Len(paras) THEN [paras |-> paras, raised |-> FALSE]
    ELSE IF ~Selected(op, branch, paras[i])
    THEN LoopParas(op, branch, paras, params, i + 1)
    ELSE LET r == SetPara(op, paras[i], params) IN
         IF r.raised THEN [paras |-> [paras EXCEPT ![i] = r.para], raised |-> TRUE]
         ELSE LoopParas(op, branch, [paras EXCEPT ![i] = r.para], params, i + 1)

\* count, as the loops count it
Count(op, branch, paras) ==
    Cardinality({i \in 1..Len(paras) : Selected(op, branch, paras[i])})

fix_paragraphs(op, d, target, params) ==
    IF target = S_all_body \/ target = S_all THEN
        LET branch == IF target = S_all_body THEN "all_body" ELSE "all"
            r == LoopParas(op, branch, d.paragraphs, params, 1)
            d2 == [d EXCEPT !.paragraphs = r.paras]
        IN IF r.raised
           THEN Raise(d2, Exc("ValueError", "invalid literal for int()", 0))
           ELSE Return(d2, Msg("ajustado em {count} parágrafos",
                               Count(op, branch, d.paragraphs)))
    ELSE IF StartsWith(target, S_paragraph_) THEN
        LET n == ParseInt(SecondField(target)) IN
        IF ~n.ok THEN Raise(d, Exc("ValueError", "invalid literal for int()", 0))
        ELSE IF n.val >= Len(d.paragraphs)
        THEN Raise(d, Exc("ValueError", "Parágrafo {n} não existe no documento",
                          n.val))
        ELSE LET pos == PyIndex(Len(d.paragraphs), n.val) IN
             IF pos = 0
             THEN Raise(d, Exc("IndexError", "list index out of range", 0))
             ELSE LET r == SetPara(op, d.paragraphs[pos], params)
                      d2 == [d EXCEPT !.paragraphs[pos] = r.para]
                  IN IF r.raised
                     THEN Raise(d2, Exc("ValueError", "invalid literal for int()", 0))
                     ELSE Return(d2, Msg("ajustado no parágrafo {n}", n.val))
    ELSE Raise(d, Exc("ValueError", "Target inválido", 0))

fix_font(d, target, params) == fix_paragraphs("fix_font", d, target, params)
fix_spacing(d, target, params) == fix_paragraphs("fix_spacing", d, target, params)
fix_alignment(d, target, params) == fix_paragraphs("fix_alignment", d, target, params)
fix_indent(d, target, params) == fix_paragraphs("fix_indent", d, target, params)

(***************************************************************************)
(* execute_single_action: action["action"], then action["target"] and      *)
(* action["params"] as the arguments of the operation; a missing key is a  *)
(* KeyError.                                                               *)
(***************************************************************************)
KnownActions ==
    {"fix_margin", "fix_font", "fix_spacing", "fix_alignment", "fix_indent"}

execute_single_action(d, action) ==
    IF "action" \notin DOMAIN action THEN Raise(d, Exc("KeyError", "action", 0))
    ELSE IF action.action \notin KnownActions
    THEN Raise(d, Exc("ValueError", "Ação desconhecida", 0))
    ELSE IF "target" \notin DOMAIN action THEN Raise(d, Exc("KeyError", "target", 0))
    ELSE IF "params" \notin DOMAIN action THEN Raise(d, Exc("KeyError", "params", 0))
    ELSE CASE action.action = "fix_margin" ->
                fix_margin(d, action.target, action.params)
           [] action.action = "fix_font" ->
                fix_font(d, action.target, action.params)
           [] action.action = "fix_spacing" ->
                fix_spacing(d, action.target, action.params)
           [] action.action = "fix_alignment" ->
                fix_alignment(d, action.target, action.params)
           [] action.action = "fix_indent" ->
                fix_indent(d, action.target, action.params)

(***************************************************************************)
(* execute_action_plan                                                     *)
(***************************************************************************)
DefaultPriority == 999

\* the sort key: x.get("priority", 999)
Priority(action) == Get(action, "priority", DefaultPriority)

\* a sort that is not stable: an element goes before the elements of its key
RECURSIVE InsertByPriorityUnstable(_, _)
InsertByPriorityUnstable(sorted, action) ==
    IF Len(sorted) = 0 THEN <<action>>
    ELSE IF Priority(sorted[Len(sorted)]) < Priority(action)
    THEN Append(sorted, action)
    ELSE Append(InsertByPriorityUnstable(SubSeq(sorted, 1, Len(sorted) - 1), action),
                sorted[Len(sorted)])

\* sorted() is stable: an element goes behind every element whose key is not
\* greater than its own
RECURSIVE InsertByPriority(_, _)
InsertByPriority(sorted, action) ==
    IF Len(sorted) = 0 THEN <<action>>
    ELSE IF Priority(sorted[Len(sorted)]) <= Priority(action)
    THEN Append(sorted, action)
    ELSE Append(InsertByPriority(SubSeq(sorted, 1, Len(sorted) - 1), action),
                sorted[Len(sorted)])

RECURSIVE SortedPlan(_)
SortedPlan(plan) ==
    IF Len(plan) = 0 THEN <<>>
    ELSE InsertByPriority(SortedPlan(SubSeq(plan, 1, Len(plan) - 1)),
                          plan[Len(plan)])

\* the dict appended to results
ResultEntry(i, action, out) ==
    [action_index |-> i,
     action |-> action,
     status |-> IF out.raised THEN "error" ELSE "success",
     value |-> out.value,
     description |-> IF out.raised THEN None
                     ELSE Get(action, "description", "Ação executada")]

\* the dict appended to self.actions_log; it reads action["action"]
LogEntry(action, out) ==
    [action |-> action.action,
     target |-> Get(action, "target", NoneStr),
     status |-> IF out.raised THEN "error" ELSE "success",
     value |-> out.value]

\* results = []; sorted_plan = sorted(...)
Call ==
    /\ pc = "idle"
    /\ pc' = "loop"
    /\ calls' = calls + 1
    /\ sorted_plan' = SortedPlan(action_plan)
    /\ results' = <<>>
    /\ idx' = 0
    /\ UNCHANGED <<doc, doc_init, action_plan, actions_log, doc_at_end>>

\* one iteration of the for loop: the try block and its except handler. The
\* handler's own action["action"] raises a KeyError that nothing catches.
Step ==
    /\ pc = "loop"
    /\ idx < Len(sorted_plan)
    /\ LET action == sorted_plan[idx + 1]
           out == execute_single_action(doc, action)
       IN /\ doc' = out.doc
          /\ results' = Append(results, ResultEntry(idx, action, out))
          /\ IF out.raised /\ "action" \notin DOMAIN action
             THEN /\ pc' = "raised"
                  /\ doc_at_end' = Append(doc_at_end, out.doc)
                  /\ UNCHANGED <<actions_log, idx>>
             ELSE /\ actions_log' = Append(actions_log, LogEntry(action, out))
                  /\ idx' = idx + 1
                  /\ pc' = pc
                  /\ UNCHANGED doc_at_end
    /\ UNCHANGED <<doc_init, action_plan, sorted_plan, calls>>

\* return results
Finish ==
    /\ pc = "loop"
    /\ idx = Len(sorted_plan)
    /\ pc' = "returned"
    /\ doc_at_end' = Append(doc_at_end, doc)
    /\ UNCHANGED <<doc, doc_init, action_plan, sorted_plan, idx, results, actions_log,
                   calls>>

\* a replay on an executor whose log starts anew with every call
ReplayOnFreshLog ==
    /\ pc \in {"returned", "raised"}
    /\ calls < MaxCalls
    /\ pc' = "loop"
    /\ calls' = calls + 1
    /\ sorted_plan' = SortedPlan(action_plan)
    /\ results' = <<>>
    /\ idx' = 0
    /\ actions_log' = <<>>
    /\ UNCHANGED <<doc, doc_init, action_plan, doc_at_end>>

\* the caller replays the same action list on the same executor
Replay ==
    /\ pc \in {"returned", "raised"}
    /\ calls < MaxCalls
    /\ pc' = "loop"
    /\ calls' = calls + 1
    /\ sorted_plan' = SortedPlan(action_plan)
    /\ results' = <<>>
    /\ idx' = 0
    /\ UNCHANGED <<doc, doc_init, action_plan, actions_log, doc_at_end>>

(***************************************************************************)
(* get_summary                                                             *)
(***************************************************************************)
CountStatus(log, status) ==
    Cardinality({i \in 1..Len(log) : log[i].status = status})

\* success_rate is kept exact, as the fraction num/den
get_summary ==
    LET total == Len(actions_log)
        successful == CountStatus(actions_log, "success")
        failed == CountStatus(actions_log, "error")
    IN [total_actions |-> total,
        successful_actions |-> successful,
        failed_actions |-> failed,
        success_rate |-> IF total > 0
                         THEN [num |-> successful * 100, den |-> total]
                         ELSE [num |-> 0, den |-> 1]]

(***************************************************************************)
(* generate_action_plan_from_issues                                        *)
(***************************************************************************)
\* next((i for i in inconsistencies if i["type"] == type), None) is not None
HasIssue(issues, type) == \E i \in 1..Len(issues) : issues[i].type = type

\* a margins test that looks at the top and the left only
needs_margin_fix_top_left(struct) ==
    LET sections == Get(struct, "sections", <<>>) IN
    /\ Len(sections) > 0
    /\ LET margins == sections[1].margins IN
       \/ margins.top # 300
       \/ margins.left # 300

\* the margins test on sections[0]
needs_margin_fix(struct) ==
    LET sections == Get(struct, "sections", <<>>) IN
    /\ Len(sections) > 0
    /\ LET margins == sections[1].margins IN
       \/ margins.top # 300
       \/ margins.left # 300
       \/ margins.bottom # 200
       \/ margins.right # 200

PlannedMargin(priority) ==
    [action |-> "fix_margin",
     target |-> S_section_ \o <<"0">>,
     params |-> [top |-> 300, left |-> 300, bottom |-> 200, right |-> 200],
     description |-> "Ajustar margens para padrão ABNT (3cm topo/esq, 2cm baixo/dir)",
     priority |-> priority]

PlannedFont(priority) ==
    [action |-> "fix_font",
     target |-> S_all_body,
     params |-> [name |-> "Arial", size |-> 1200],
     description |-> "Padronizar fonte para Arial 12pt em todo corpo de texto",
     priority |-> priority]

PlannedSpacing(priority) ==
    [action |-> "fix_spacing",
     target |-> S_all_body,
     params |-> [line_spacing |-> 150],
     description |-> "Padronizar espaçamento entre linhas para 1.5",
     priority |-> priority]

PlannedAlignment(priority) ==
    [action |-> "fix_alignment",
     target |-> S_all_body,
     params |-> [alignment |-> "justify"],
     description |-> "Justificar todo corpo de texto",
     priority |-> priority]

\* an indent action whose priority is the place of its category among the
\* five, whichever of them are planned
PlannedIndentAtFive(priority) ==
    [action |-> "fix_indent",
     target |-> S_all_body,
     params |-> [first_line |-> 125],
     description |-> "Adicionar recuo de 1.25cm na primeira linha de todos os parágrafos",
     priority |-> 5]

PlannedIndent(priority) ==
    [action |-> "fix_indent",
     target |-> S_all_body,
     params |-> [first_line |-> 125],
     description |-> "Adicionar recuo de 1.25cm na primeira linha de todos os parágrafos",
     priority |-> priority]

\* the five "if ...: action_plan.append(...); priority += 1" in their order,
\* each on acc = [action_plan, priority]
Emit(acc, action) ==
    [action_plan |-> Append(acc.action_plan, action),
     priority |-> acc.priority + 1]

PlanMargin(acc, struct) ==
    IF needs_margin_fix(struct) THEN Emit(acc, PlannedMargin(acc.priority))
    ELSE acc

\* a planner that looks at the first issue only
PlanFontFirstIssueOnly(acc, issues) ==
    IF Len(issues) > 0 /\ issues[1].type = "inconsistent_fonts"
    THEN Emit(acc, PlannedFont(acc.priority))
    ELSE acc

PlanFont(acc, issues) ==
    IF HasIssue(issues, "inconsistent_fonts")
    THEN Emit(acc, PlannedFont(acc.priority))
    ELSE acc

\* a planner that emits one action for every issue of the category
RECURSIVE PlanSpacingPerIssue(_, _)
PlanSpacingPerIssue(acc, issues) ==
    IF Len(issues) = 0 THEN acc
    ELSE IF issues[1].type = "inconsistent_spacing"
    THEN PlanSpacingPerIssue(Emit(acc, PlannedSpacing(acc.priority)), Tail(issues))
    ELSE PlanSpacingPerIssue(acc, Tail(issues))

PlanSpacing(acc, issues) ==
    IF HasIssue(issues, "inconsistent_spacing")
    THEN Emit(acc, PlannedSpacing(acc.priority))
    ELSE acc

PlanAlignment(acc, issues) ==
    IF HasIssue(issues, "inconsistent_alignment")
    THEN Emit(acc, PlannedAlignment(acc.priority))
    ELSE acc

PlanIndent(acc, issues) ==
    IF HasIssue(issues, "inconsistent_indent")
    THEN Emit(acc, PlannedIndent(acc.priority))
    ELSE acc

\* abnt is read by no statement of the function
generate_action_plan_from_issues(abnt, issues, struct) ==
    PlanIndent(
        PlanAlignment(
            PlanSpacing(
                PlanFont(
                    PlanMargin([action_plan |-> <<>>, priority |-> 1], struct),
                    issues),
                issues),
            issues),
        issues).action_plan

\* the first call of the planner on the inputs
Plan ==
    /\ Len(first_out) = 0
    /\ plan_out' = generate_action_plan_from_issues(abnt_issues, inconsistencies,
                                                    structure)
    /\ first_out' = <<plan_out'>>
    /\ UNCHANGED <<inconsistencies, abnt_issues, structure>>

\* a second call with identical inputs
PlanAgain ==
    /\ Len(first_out) > 0
    /\ plan_out' = generate_action_plan_from_issues(abnt_issues, inconsistencies,
                                                    structure)
    /\ UNCHANGED <<inconsistencies, abnt_issues, structure, first_out>>

\* a call with the same issues in another order: two neighbours swapped
PlanPermuted ==
    /\ Len(first_out) > 0
    /\ \E i \in 1..(Len(inconsistencies) - 1) :
         inconsistencies' = [inconsistencies EXCEPT ![i] = inconsistencies[i + 1],
                                                    ![i + 1] = inconsistencies[i]]
    /\ plan_out' = generate_action_plan_from_issues(abnt_issues, inconsistencies',
                                                    structure)
    /\ UNCHANGED <<abnt_issues, structure, first_out>>

(***************************************************************************)
(* detect_style_inconsistencies. A paragraph of the vision is the dict of  *)
(* extract_paragraphs: style.name, style.alignment,                        *)
(* style.spacing.line_spacing, style.indent.first_line and runs[i].font.   *)
(* Sizes, spacings and indents are in hundredths; None is NoneNum there.   *)
(***************************************************************************)
\* a filter that knows the headings of one language only
IsBodyParagraphEnglishOnly(p) == ~StartsWith(Lower(p.style.name), S_heading)

\* the condition of the comprehension that builds body_paragraphs
IsBodyParagraph(p) ==
    /\ ~StartsWith(Lower(p.style.name), S_heading)
    /\ ~StartsWith(Lower(p.style.name), S_titulo)

\* the keys of a dict in insertion order: the values of seq, each at its
\* first occurrence
DictKeys(seq) ==
    LET firsts == {i \in 1..Len(seq) : \A j \in 1..(i - 1) : seq[j] # seq[i]}
    IN [k \in 1..Cardinality(firsts) |->
           seq[CHOOSE i \in firsts : Cardinality({j \in firsts : j < i}) = k - 1]]

\* the values a loop over the runs of the body paragraphs sees, in order
RECURSIVE RunFonts(_)
RunFonts(body) ==
    IF Len(body) = 0 THEN <<>>
    ELSE [i \in 1..Len(body[1].runs) |-> body[1].runs[i].font] \o RunFonts(Tail(body))

\* bool(run['font']['name'])
NameTruthy(name) == name # None /\ name # ""

\* font_key of the runs whose font has a name
FontKey(font) == <<font.name, font.size>>

MapSeq(Op(_), seq) == [i \in 1..Len(seq) |-> Op(seq[i])]

\* a detector for which two fonts are one too many
FontsInconsistentFromTwo(fonts_used) == Len(fonts_used) > 1

\* "if len(fonts_used) > 2"
FontsInconsistent(fonts_used) == Len(fonts_used) > 2

\* a detector for which a paragraph without indent is an issue by itself
IndentInconsistentWithoutIndent(has_indent, no_indent) == no_indent > 0

\* "if has_indent > 0 and no_indent > 0"
IndentInconsistent(has_indent, no_indent) == has_indent > 0 /\ no_indent > 0

\* one dict of the list the detector returns; args is what the description
\* interpolates
Inconsistency(type, severity, text, args, recommendation, affected_count) ==
    [type |-> type, severity |-> severity,
     description |-> [text |-> text, args |-> args],
     recommendation |-> recommendation, affected_count |-> affected_count]

\* bool(x) of a number or None
NumTruthy(x) == x # NoneNum /\ x # 0

detect_style_inconsistencies(vision) ==
    LET paragraphs == vision.structure.paragraphs
        body_paragraphs == SelectSeq(paragraphs, IsBodyParagraph)
        NamedFont(font) == NameTruthy(font.name)
        fonts_used == DictKeys(MapSeq(FontKey, SelectSeq(RunFonts(body_paragraphs),
                                                       NamedFont)))
        Alignment(p) == p.style.alignment
        alignments == DictKeys(MapSeq(Alignment, body_paragraphs))
        Spacing(p) == p.style.spacing.line_spacing
        spacings == DictKeys(SelectSeq(MapSeq(Spacing, body_paragraphs), NumTruthy))
        Indented(p) == /\ NumTruthy(p.style.indent.first_line)
                       /\ p.style.indent.first_line > 0
        has_indent == Cardinality({i \in 1..Len(body_paragraphs) :
                                      Indented(body_paragraphs[i])})
        no_indent == Len(body_paragraphs) - has_indent
        fonts == IF FontsInconsistent(fonts_used)
                 THEN <<Inconsistency("inconsistent_fonts", "high",
                                      "Múltiplas fontes encontradas", fonts_used,
                                      "Padronizar para Arial 12pt",
                                      Len(body_paragraphs))>>
                 ELSE <<>>
        alignment == IF Len(alignments) > 1
                     THEN <<Inconsistency("inconsistent_alignment", "medium",
                                          "Múltiplos alinhamentos", alignments,
                                          "Justificar todo corpo de texto",
                                          Len(body_paragraphs))>>
                     ELSE <<>>
        spacing == IF Len(spacings) > 1
                   THEN <<Inconsistency("inconsistent_spacing", "high",
                                        "Múltiplos espaçamentos entre linhas", spacings,
                                        "Padronizar para 1.5",
                                        Len(body_paragraphs))>>
                   ELSE <<>>
        indent == IF IndentInconsistent(has_indent, no_indent)
                  THEN <<Inconsistency("inconsistent_indent", "medium",
                                       "parágrafos sem recuo, com recuo",
                                       <<no_indent, has_indent>>,
                                       "Adicionar recuo de 1.25cm em todos",
                                       no_indent)>>
                  ELSE <<>>
    IN IF Len(body_paragraphs) = 0 THEN <<>>
       ELSE fonts \o alignment \o spacing \o indent

(***************************************************************************)
(* analyze_document_structure and analyze_document_with_ai. The AI is an   *)
(* external collaborator; ai says what it does in this run:                *)
(*   "not_configured"  GEMINI_API_KEY is not set, get_model raises         *)
(*   "raises"          generate_content (or response.text) raises          *)
(*   "unparsable"      the answer is no JSON, json.loads raises            *)
(*   "no_issues_key"   the answer is a JSON object without "abnt_issues"   *)
(*   "answers"         the answer is a JSON object with a list of issues   *)
(*   "not_an_object"   the answer is JSON but a list, not an object        *)
(***************************************************************************)
AIModes == {"not_configured", "raises", "unparsable", "no_issues_key", "answers",
            "not_an_object"}

AnsweredIssues == <<[type |-> "margins", severity |-> "high"]>>

\* the action_plan of the AI's own answer, which the prompt asks for
AnsweredPlan ==
    <<[action |-> "fix_font", target |-> S_all,
       params |-> [name |-> "Times New Roman", size |-> 1400],
       description |-> "Padronizar fonte", priority |-> 1]>>

\* get_model() is called before the try: its ValueError leaves the function;
\* what generate_content, response.text and json.loads raise is caught and
\* answered with a dict that holds "error"; whatever json.loads returns is
\* returned
analyze_document_structure(mode) ==
    CASE mode = "not_configured" ->
             [raised |-> TRUE, object |-> FALSE,
              value |-> Exc("ValueError", "GEMINI_API_KEY não configurada", 0)]
      [] mode = "raises" ->
             [raised |-> FALSE, object |-> TRUE, value |-> [error |-> "str(e)"]]
      [] mode = "unparsable" ->
             [raised |-> FALSE, object |-> TRUE,
              value |-> [error |-> "Falha ao parsear resposta da IA",
                         raw_response |-> "response.text[:500]"]]
      [] mode = "no_issues_key" ->
             [raised |-> FALSE, object |-> TRUE, value |-> [summary |-> "summary"]]
      [] mode = "answers" ->
             [raised |-> FALSE, object |-> TRUE,
              value |-> [abnt_issues |-> AnsweredIssues,
                         action_plan |-> AnsweredPlan]]
      [] mode = "not_an_object" ->
             [raised |-> FALSE, object |-> FALSE, value |-> <<"title", "body">>]

calculate_compliance_score(abnt_issues_count, inconsistencies_count) ==
    LET total_issues == abnt_issues_count + inconsistencies_count IN
    IF total_issues = 0 THEN 100
    ELSE IF total_issues <= 2 THEN 90
    ELSE IF total_issues <= 5 THEN 75
    ELSE IF total_issues <= 10 THEN 60
    ELSE IF total_issues <= 15 THEN 45
    ELSE 30

\* analyze_document_with_ai: [called, raised, value, inconsistencies,
\* abnt_issues]; the last two are the locals as far as the call got
analyze_document_with_ai(vision, mode) ==
    LET ai_analysis == analyze_document_structure(mode)
        found == detect_style_inconsistencies(vision)
    IN IF ai_analysis.raised
       THEN [called |-> TRUE, raised |-> TRUE, value |-> ai_analysis.value,
             inconsistencies |-> <<>>, abnt_issues |-> <<>>]
       ELSE IF ~ai_analysis.object
       THEN [called |-> TRUE, raised |-> TRUE,
             value |-> Exc("AttributeError", "'list' object has no attribute 'get'", 0),
             inconsistencies |-> found, abnt_issues |-> <<>>]
       ELSE LET issues == Get(ai_analysis.value, "abnt_issues", <<>>)
                plan == generate_action_plan_from_issues(issues, found,
                                                         vision.structure)
            IN [called |-> TRUE, raised |-> FALSE,
                value |-> [ai_analysis |-> ai_analysis.value,
                           inconsistencies |-> found,
                           action_plan |-> plan,
                           summary |->
                               [total_issues |-> Len(issues) + Len(found),
                                ai_issues |-> Len(issues),
                                style_inconsistencies |-> Len(found),
                                actions_required |-> Len(plan),
                                estimated_fixes |-> Len(plan),
                                compliance_score |->
                                    calculate_compliance_score(Len(issues),
                                                               Len(found))]],
                inconsistencies |-> found, abnt_issues |-> issues]

\* a smart-format that executes the AI's own plan when the answer has one
ExecutedPlanOfTheAI(out) ==
    Get(out.value.ai_analysis, "action_plan", Get(out.value, "action_plan", <<>>))

\* action_plan = structural_analysis.get("action_plan", []), which
\* smart-format hands to execute_action_plan
ExecutedPlan(out) == Get(out.value, "action_plan", <<>>)

NotCalled == [called |-> FALSE, raised |-> FALSE, value |-> Exc("", "", 0),
              inconsistencies |-> <<>>, abnt_issues |-> <<>>]

\* the variables after a call of analyze_document_with_ai on vision
Analyzed(vision) ==
    LET out == analyze_document_with_ai(vision, ai) IN
    /\ analysis' = out
    /\ inconsistencies' = out.inconsistencies
    /\ abnt_issues' = out.abnt_issues
    /\ structure' = vision.structure
    /\ plan_out' = IF out.raised THEN <<>> ELSE out.value.action_plan
    /\ first_out' = IF Len(first_out) = 0 THEN <<plan_out'>> ELSE first_out
    /\ first_issues' = IF Len(first_issues) = 0
                       THEN <<detect_style_inconsistencies(vision)>>
                       ELSE first_issues

\* the first call on the vision
Analyze ==
    /\ ~analysis.called
    /\ Analyzed(complete_vision)
    /\ UNCHANGED <<complete_vision, ai>>

(***************************************************************************)
(* DocumentValidator. A pdf is the sequence of its pages; a page is        *)
(* [width, height, blocks], blocks being page.get_text("dict")["blocks"]:  *)
(* an image block has no "lines" key, a text block has bbox and lines, a   *)
(* line bbox and spans, a span font and size. Coordinates are whole        *)
(* points, bbox = <<x0, y0, x1, y1>>; span sizes and all scores are in     *)
(* tenths, centimetres and spacing ratios in thousandths, and a division   *)
(* keeps the whole part of the quotient.                                   *)
(***************************************************************************)
tolerance_pt == 20

Abs(x) == IF x < 0 THEN 0 - x ELSE x

Max2(a, b) == IF a >= b THEN a ELSE b
Min2(a, b) == IF a <= b THEN a ELSE b

RECURSIVE Sum(_)
Sum(seq) == IF Len(seq) = 0 THEN 0 ELSE seq[1] + Sum(Tail(seq))

MinOf(seq) == CHOOSE x \in {seq[i] : i \in 1..Len(seq)} :
                  \A i \in 1..Len(seq) : x <= seq[i]
MaxOf(seq) == CHOOSE x \in {seq[i] : i \in 1..Len(seq)} :
                  \A i \in 1..Len(seq) : x >= seq[i]

RECURSIVE Flatten(_)
Flatten(seqs) == IF Len(seqs) = 0 THEN <<>> ELSE seqs[1] \o Flatten(Tail(seqs))

\* the whole part of the square root of x, searched between lo and hi
RECURSIVE SqrtBetween(_, _, _)
SqrtBetween(x, lo, hi) ==
    IF lo >= hi THEN lo
    ELSE LET mid == (lo + hi + 1) \div 2 IN
         IF mid * mid <= x THEN SqrtBetween(x, mid, hi)
         ELSE SqrtBetween(x, lo, mid - 1)

Sqrt(x) == SqrtBetween(x, 0, 46340)

\* round(x, 1) of a value given in thousandths, as tenths
Round1(thousandths) == (thousandths + 50) \div 100

\* (points / 72) * 2.54, in thousandths of a centimetre
PointsToCm(points) == (points * 2540) \div 72

\* [b for b in blocks if "lines" in b]
IsTextBlock(block) == "lines" \in DOMAIN block
TextBlocks(page) == SelectSeq(page.blocks, IsTextBlock)

\* the lines of the text blocks of a page, in order
BlockLines(block) == block.lines
PageLines(page) == Flatten(MapSeq(BlockLines, TextBlocks(page)))

\* a degenerate result that gives no reason
DegenerateWithoutReason(reason) == [valid |-> FALSE, score |-> 0]

Degenerate(reason) == [valid |-> FALSE, reason |-> reason, score |-> 0]

expected_margins == [left |-> 3000, top |-> 3000, right |-> 2000, bottom |-> 2000]

\* a margin score that is not floored at 0
MarginScoreUnfloored(avg_deviation) == 100000 - avg_deviation * 30

\* max(0, 100 - (avg_deviation * 30)), in thousandths
MarginScore(avg_deviation) == Max2(0, 100000 - avg_deviation * 30)

validate_margins(doc_pdf) ==
    IF Len(doc_pdf) = 0 THEN Degenerate("Documento vazio")
    ELSE IF Len(TextBlocks(doc_pdf[1])) = 0 THEN Degenerate("Nenhum texto encontrado")
    ELSE
    LET page == doc_pdf[1]
        text_blocks == TextBlocks(page)
        Left(b) == b.bbox[1]
        Top(b) == b.bbox[2]
        Right(b) == b.bbox[3]
        Bottom(b) == b.bbox[4]
        cm == [left |-> PointsToCm(MinOf(MapSeq(Left, text_blocks))),
               top |-> PointsToCm(MinOf(MapSeq(Top, text_blocks))),
               right |-> PointsToCm(page.width - MaxOf(MapSeq(Right, text_blocks))),
               bottom |-> PointsToCm(page.height - MaxOf(MapSeq(Bottom, text_blocks)))]
        deviation == [side \in DOMAIN cm |-> Abs(cm[side] - expected_margins[side])]
        valid == [side \in DOMAIN cm |-> deviation[side] <= tolerance_cm * 10]
        avg_deviation == (deviation.left + deviation.top + deviation.right
                          + deviation.bottom) \div 4
        sides == <<"left", "top", "right", "bottom">>
        Invalid(side) == ~valid[side]
    IN [valid |-> \A side \in DOMAIN cm : valid[side],
        measured |-> [side \in DOMAIN cm |-> (cm[side] + 5) \div 10],
        issues |-> SelectSeq(sides, Invalid),
        score |-> Round1(MarginScore(avg_deviation))]

\* sub in s, for strings
Contains(s, sub) ==
    \E i \in 1..(Len(s) - Len(sub) + 1) : SubSeq(s, i, i + Len(sub) - 1) = sub

\* max(found, key=found.get) over the keys in insertion order: the first key
\* with the greatest number of occurrences
Occurrences(x, seq) == Cardinality({i \in 1..Len(seq) : seq[i] = x})

MostFrequent(seq) ==
    LET keys == DictKeys(seq)
        first == CHOOSE i \in 1..Len(keys) :
                     /\ \A j \in 1..Len(keys) :
                            Occurrences(keys[j], seq) <= Occurrences(keys[i], seq)
                     /\ \A j \in 1..(i - 1) :
                            Occurrences(keys[j], seq) < Occurrences(keys[i], seq)
    IN keys[first]

\* the spans of the first three pages
LineSpans(line) == line.spans
PageSpans(page) == Flatten(MapSeq(LineSpans, PageLines(page)))
FirstPagesSpans(doc_pdf) ==
    Flatten([n \in 1..Min2(3, Len(doc_pdf)) |-> PageSpans(doc_pdf[n])])

\* a size score that is not floored at 0
SizeScoreUnfloored(main_size) == 500 - Abs(main_size - 120) * 5

\* max(0, 50 - abs(main_size - 12.0) * 5), in tenths
SizeScore(main_size) == Max2(0, 500 - Abs(main_size - 120) * 5)

validate_fonts(doc_pdf) ==
    IF Len(doc_pdf) = 0 THEN Degenerate("Documento vazio")
    ELSE IF Len(FirstPagesSpans(doc_pdf)) = 0 THEN Degenerate("Nenhum texto encontrado")
    ELSE
    LET spans == FirstPagesSpans(doc_pdf)
        Font(span) == span.font
        Size(span) == span.size
        fonts == MapSeq(Font, spans)
        main_font == MostFrequent(fonts)
        main_size == MostFrequent(MapSeq(Size, spans))
        has_arial == \E i \in 1..Len(fonts) : Contains(fonts[i], <<"A", "r", "i", "a", "l">>)
        has_times == \E i \in 1..Len(fonts) : Contains(fonts[i], <<"T", "i", "m", "e", "s">>)
        has_correct_font == has_arial \/ has_times
        has_12pt == Abs(main_size - 120) <= tolerance_pt
        font_score == IF has_correct_font THEN 500 ELSE 0
        size_score == IF has_12pt THEN 500 ELSE SizeScore(main_size)
    IN [valid |-> has_correct_font /\ has_12pt,
        main_font |-> main_font,
        main_size |-> main_size,
        issues |-> (IF has_correct_font THEN <<>> ELSE <<"font">>)
                   \o (IF has_12pt THEN <<>> ELSE <<"size">>),
        score |-> font_score + size_score]

\* the spacing ratios of the consecutive lines of one block, in thousandths
BlockSpacings(block) ==
    LET lines == block.lines
        Height(i) == lines[i].bbox[4] - lines[i].bbox[2]
        Measurable(i) == Height(i) > 0
        Ratio(i) == ((lines[i + 1].bbox[2] - lines[i].bbox[4]) * 1000) \div Height(i)
        pairs == [i \in 1..(Len(lines) - 1) |-> i]
    IN MapSeq(Ratio, SelectSeq(pairs, Measurable))

\* a spacing score that is not floored at 0
SpacingScoreUnfloored(deviation) == 100000 - deviation * 150

\* max(0, 100 - (deviation * 150)), in thousandths
SpacingScore(deviation) == Max2(0, 100000 - deviation * 150)

validate_spacing(doc_pdf) ==
    IF Len(doc_pdf) = 0 THEN Degenerate("Documento vazio")
    ELSE
    LET line_spacings == Flatten(MapSeq(BlockSpacings, TextBlocks(doc_pdf[1])))
    IN IF Len(line_spacings) = 0 THEN Degenerate("Nao foi possivel medir espacamento")
       ELSE
       LET avg_spacing == Sum(line_spacings) \div Len(line_spacings)
           expected_ratio == 500
           deviation == Abs(avg_spacing - expected_ratio)
           valid == deviation <= 300
       IN [valid |-> valid,
           avg_spacing |-> avg_spacing,
           issues |-> IF valid THEN <<>> ELSE <<"spacing">>,
           score |-> Round1(SpacingScore(deviation))]

\* statistics.stdev(values), in hundredths: the square root of the sum of
\* the squared distances from the mean over len(values) - 1
stdev(values) ==
    LET n == Len(values)
        Square(x) == x * x
        numerator == n * Sum(MapSeq(Square, values)) - Sum(values) * Sum(values)
    IN Sqrt(10000 * (numerator \div (n * (n - 1))))

\* a penalty that grows without limit
PenaltyUncapped(std) == IF std > 1000 THEN (std - 1000) * 2 ELSE 0

\* score -= min(40, (std - 10) * 2) if std > 10, in hundredths
Penalty(std) == IF std > 1000 THEN Min2(4000, (std - 1000) * 2) ELSE 0

validate_alignment(doc_pdf) ==
    IF Len(doc_pdf) = 0 THEN Degenerate("Documento vazio")
    ELSE IF Len(PageLines(doc_pdf[1])) = 0 THEN Degenerate("Nenhuma linha encontrada")
    ELSE
    LET page == doc_pdf[1]
        Left(line) == line.bbox[1]
        Right(line) == page.width - line.bbox[3]
        left_margins == MapSeq(Left, PageLines(page))
        right_margins == MapSeq(Right, PageLines(page))
        left_std == IF Len(left_margins) > 1 THEN stdev(left_margins) ELSE 0
        right_std == IF Len(right_margins) > 1 THEN stdev(right_margins) ELSE 0
        valid_left == left_std < 1000
        valid_right == right_std < 1000
        score == Max2(0, 10000 - Penalty(left_std) - Penalty(right_std))
    IN [valid |-> valid_left /\ valid_right,
        left_margin_std |-> left_std,
        right_margin_std |-> right_std,
        issues |-> (IF valid_left THEN <<>> ELSE <<"left">>)
                   \o (IF valid_right THEN <<>> ELSE <<"right">>),
        score |-> (score + 5) \div 10]

categories == <<"margins", "fonts", "spacing", "alignment">>

\* round(sum(scores) / len(scores), 1), in tenths
MeanScore(scores) == (2 * Sum(scores) + Len(scores)) \div (2 * Len(scores))

Validate(doc_pdf) == [margins |-> validate_margins(doc_pdf),
                      fonts |-> validate_fonts(doc_pdf),
                      spacing |-> validate_spacing(doc_pdf),
                      alignment |-> validate_alignment(doc_pdf)]

Severity(category_score) == IF category_score < 500 THEN "critical"
                            ELSE IF category_score < 800 THEN "warning"
                            ELSE "info"

\* result[category].get("issues", [])
CategoryIssues(result) ==
    IF "issues" \in DOMAIN result THEN result.issues ELSE <<>>

AllIssues(result) ==
    LET OfCategory(category) ==
            [i \in 1..Len(CategoryIssues(result[category])) |->
                [category |-> category,
                 severity |-> Severity(result[category].score),
                 description |-> CategoryIssues(result[category])[i],
                 score_impact |-> 1000 - result[category].score]]
    IN Flatten(MapSeq(OfCategory, categories))

overall_valid_threshold == 900

\* validate_document_quality once the four categories are validated
QualityOf(result) ==
    LET Score(category) == result[category].score
        overall_score == MeanScore(MapSeq(Score, categories))
    IN result @@ [overall_score |-> overall_score,
                  overall_valid |-> overall_score >= overall_valid_threshold,
                  total_issues |-> Len(AllIssues(result)),
                  all_issues |-> AllIssues(result)]

validate_document_quality(doc_pdf) == QualityOf(Validate(doc_pdf))

compare_documents(original, formatted) ==
    [original_pages |-> Len(original),
     formatted_pages |-> Len(formatted),
     pages_changed |-> Len(original) # Len(formatted)]

\* validate_formatting once the four categories and the comparison are made
FormattingOf(result, comparison) ==
    LET Score(category) == IF result[category].valid THEN 1000
                           ELSE result[category].score
        overall_score == MeanScore(MapSeq(Score, categories))
    IN result @@ [comparison |-> comparison,
                  overall_score |-> overall_score,
                  overall_valid |-> overall_score >= overall_valid_threshold]

validate_formatting(original, formatted) ==
    FormattingOf(Validate(formatted), compare_documents(original, formatted))

abnt_compliant_threshold == 850

\* GET /validate/{filename} once the document is found: conversion_success
\* is what convert_docx_to_pdf answered, doc_pdf what it rendered
\* the response of /validate to a validation result
Summary(validation_result) ==
    LET Critical(issue) == issue.severity = "critical"
        Warning(issue) == issue.severity = "warning"
    IN [status |-> 200,
        overall_score |-> validation_result.overall_score,
        is_abnt_compliant |->
            validation_result.overall_score >= abnt_compliant_threshold,
        total_issues |-> Len(validation_result.all_issues),
        critical_issues |-> Len(SelectSeq(validation_result.all_issues, Critical)),
        warnings |-> Len(SelectSeq(validation_result.all_issues, Warning))]

validate_document(conversion_success, doc_pdf) ==
    IF ~conversion_success
    THEN [status |-> 500, overall_score |-> 0, is_abnt_compliant |-> FALSE,
          total_issues |-> 0, critical_issues |-> 0, warnings |-> 0]
    ELSE Summary(validate_document_quality(doc_pdf))

(***************************************************************************)
(* The documents, actions and planner inputs the model starts from.        *)
(***************************************************************************)
\* all sequences over S of length 0..n
RECURSIVE SeqsUpTo(_, _)
SeqsUpTo(S, n) ==
    IF n = 0 THEN {<<>>}
    ELSE LET shorter == SeqsUpTo(S, n - 1)
         IN shorter \cup {Append(q, x) : q \in {r \in shorter : Len(r) = n - 1},
                                         x \in S}

Run(text, font_name, font_size) ==
    [text |-> text, font_name |-> font_name, font_size |-> font_size]

Para(style, alignment, line_spacing, first_line_indent, runs) ==
    [style |-> style, alignment |-> alignment, line_spacing |-> line_spacing,
     first_line_indent |-> first_line_indent, runs |-> runs]

Section(top, bottom, left, right) ==
    [top |-> Cm(top).emu, bottom |-> Cm(bottom).emu,
     left |-> Cm(left).emu, right |-> Cm(right).emu]

\* a body paragraph with text, in two runs of different fonts
ParaBody ==
    Para(<<"N", "o", "r", "m", "a", "l">>, "LEFT", NoneNum, NoneNum,
         <<Run(<<"a", "b">>, "Calibri", Pt(1100).emu),
           Run(<<"c">>, None, NoneNum)>>)

\* a heading with text
ParaHeading ==
    Para(<<"H", "e", "a", "d", "i", "n", "g", " ", "1">>, "CENTER", 100, NoneNum,
         <<Run(<<"T">>, "Arial", Pt(1400).emu)>>)

\* a heading in capitals whose text is blank
ParaTitulo ==
    Para(<<"T", "Í", "T", "U", "L", "O", " ", "2">>, None, NoneNum, Cm(100).emu,
         <<Run(<<" ">>, "Times New Roman", Pt(1200).emu)>>)

\* a body paragraph whose text is blank
ParaBlank ==
    Para(<<"B", "o", "d", "y", " ", "T", "e", "x", "t">>, "JUSTIFY", 150, NoneNum,
         <<Run(<<" ", "\t">>, "Calibri", Pt(1100).emu)>>)

\* a body paragraph with no run; "Title" is no heading for the executor
ParaNoRuns ==
    Para(<<"T", "i", "t", "l", "e">>, "RIGHT", 200, Cm(125).emu, <<>>)

ParaPool == {ParaBody, ParaHeading, ParaTitulo, ParaBlank}

SecABNT == Section(300, 200, 300, 200)
SecWide == Section(250, 250, 250, 250)

\* the ten-paragraph document of the paragraph_500 scenario
DocTen ==
    [sections |-> <<SecABNT>>,
     paragraphs |-> [i \in 1..10 |-> IF i = 1 THEN ParaHeading ELSE ParaBody]]

\* the documents the paragraph operations are tried on
ParaDocs ==
    {[sections |-> <<SecWide>>, paragraphs |-> ps] : ps \in SeqsUpTo(ParaPool, MaxParas)}
    \cup {[sections |-> <<SecWide>>, paragraphs |-> <<ParaNoRuns, ParaBody>>],
          [sections |-> <<SecWide>>, paragraphs |-> <<ParaTitulo, ParaBlank, ParaBody>>],
          DocTen}

\* the documents fix_margin is tried on
SectionDocs ==
    {[sections |-> ss, paragraphs |-> <<ParaBody>>] :
        ss \in SeqsUpTo({SecABNT, SecWide}, MaxSecs) \ {<<>>}}

\* targets
T_section(n) == S_section_ \o n
T_paragraph(n) == S_paragraph_ \o n

ParagraphTargets ==
    {S_all_body, S_all, S_all_sections,
     T_paragraph(<<"0">>), T_paragraph(<<"1">>),
     T_paragraph(<<"5", "0", "0">>), T_paragraph(<<"-", "1">>),
     T_paragraph(<<"-", "4">>), T_paragraph(<<"x">>),
     T_paragraph(<<"1", "_", "9">>)}

SectionTargets ==
    {S_all_sections, S_all_body,
     T_section(<<"0">>), T_section(<<"1">>), T_section(<<"7">>),
     T_section(<<"-", "1">>), T_section(<<"-", "4">>), T_section(<<>>)}

MarginParams ==
    {[top |-> 300, left |-> 300, bottom |-> 200, right |-> 200],
     [left |-> 100],
     [top |-> 400, bottom |-> NaN, left |-> 400]}

FontParams ==
    {[name |-> "Arial", size |-> 1200],
     [name |-> "Times New Roman"],
     [size |-> 1000],
     [name |-> "Arial", size |-> NaN]}

SpacingParams == {[line_spacing |-> 150], [other |-> 0], [line_spacing |-> NaN]}

AlignmentParams ==
    {[alignment |-> "center"], [alignment |-> "weird"], [other |-> 0]}

IndentParams == {[first_line |-> 125], [other |-> 0], [first_line |-> NaN]}

Action(type, target, params) ==
    [action |-> type, target |-> target, params |-> params]

MarginActions ==
    {Action("fix_margin", t, ps) : t \in SectionTargets, ps \in MarginParams}

ParagraphActions ==
    {Action("fix_font", t, ps) : t \in ParagraphTargets, ps \in FontParams}
    \cup {Action("fix_spacing", t, ps) : t \in ParagraphTargets, ps \in SpacingParams}
    \cup {Action("fix_alignment", t, ps) : t \in ParagraphTargets,
                                           ps \in AlignmentParams}
    \cup {Action("fix_indent", t, ps) : t \in ParagraphTargets, ps \in IndentParams}

\* an unknown action and dicts with a key missing
MalformedActions ==
    {Action("insert_paragraph", S_all_body, [text |-> "x"]),
     [action |-> "fix_font", params |-> [name |-> "Arial"]],
     [action |-> "fix_font", target |-> S_all],
     [target |-> S_all_body, params |-> [name |-> "Arial"]]}

\* the actions the plans of several actions are made of
WithPriority(action, priority) ==
    [k \in DOMAIN action \cup {"priority"} |->
        IF k = "priority" THEN priority ELSE action[k]]

PlanActions ==
    {WithPriority(Action("fix_margin", T_section(<<"0">>),
                         [top |-> 300, left |-> 300, bottom |-> 200, right |-> 200]), 1),
     WithPriority(Action("fix_font", S_all_body, [name |-> "Arial", size |-> 1200]), 2),
     WithPriority(Action("fix_font", S_all, [name |-> "Times New Roman"]), 2),
     WithPriority(Action("fix_spacing", T_paragraph(<<"5", "0", "0">>),
                         [line_spacing |-> 150]), 2),
     Action("fix_indent", S_all, [first_line |-> 125]),
     WithPriority([target |-> S_all_body, params |-> [name |-> "Arial"]], 3)}

PlanDocs == {[sections |-> <<SecWide>>, paragraphs |-> <<ParaHeading, ParaBody>>],
             DocTen}

(***************************************************************************)
(* extract_complete_structure on a document the executor works on: the     *)
(* sections and paragraphs the detector and the planner read. Lengths are  *)
(* EMU in the document and hundredths of cm or pt in the structure.        *)
(***************************************************************************)
\* round(length.cm, 2) and round(length.pt, 2) of a length that is truthy,
\* None for a length that is None or 0
RoundedLength(emu, per_hundredth) ==
    IF emu = NoneNum \/ emu = 0 THEN NoneNum
    ELSE (2 * emu + per_hundredth) \div (2 * per_hundredth)

\* str(para.alignment) if para.alignment else "None"; LEFT is the member 0
AlignmentStr(alignment) ==
    CASE alignment = "CENTER" -> "CENTER (1)"
      [] alignment = "RIGHT" -> "RIGHT (2)"
      [] alignment = "JUSTIFY" -> "JUSTIFY (3)"
      [] OTHER -> "None"

extract_font_info(run) ==
    [name |-> run.font_name, size |-> RoundedLength(run.font_size, 127)]

extract_paragraphs(d) ==
    [i \in 1..Len(d.paragraphs) |->
        LET para == d.paragraphs[i] IN
        [style |-> [name |-> para.style,
                    alignment |-> AlignmentStr(para.alignment),
                    spacing |-> [line_spacing |->
                                    IF para.line_spacing = 0 THEN NoneNum
                                    ELSE para.line_spacing],
                    indent |-> [first_line |->
                                   RoundedLength(para.first_line_indent, 3600)]],
         runs |-> [j \in 1..Len(para.runs) |->
                      [font |-> extract_font_info(para.runs[j])]]]]

extract_sections(d) ==
    [i \in 1..Len(d.sections) |->
        [margins |-> [top |-> RoundedLength(d.sections[i].top, 3600),
                      bottom |-> RoundedLength(d.sections[i].bottom, 3600),
                      left |-> RoundedLength(d.sections[i].left, 3600),
                      right |-> RoundedLength(d.sections[i].right, 3600)]]]

extract_complete_structure(d) ==
    [structure |-> [sections |-> extract_sections(d),
                    paragraphs |-> extract_paragraphs(d)]]

\* smart_format up to the executor: the inconsistencies of the document and
\* the plan made of them; the AI's issues are no input of the plan
Detected(d) == detect_style_inconsistencies(extract_complete_structure(d))

Planned(d) ==
    generate_action_plan_from_issues(<<>>, Detected(d),
                                     extract_complete_structure(d).structure)

\* a body paragraph with text, of the norm but for its font size
ParaIndented ==
    Para(<<"N", "o", "r", "m", "a", "l">>, "JUSTIFY", 150, Cm(125).emu,
         <<Run(<<"d">>, "Arial", Pt(1000).emu)>>)

\* the documents smart-format is tried on
SmartDocs ==
    {[sections |-> <<sec>>, paragraphs |-> ps] :
        sec \in {SecABNT, SecWide},
        ps \in SeqsUpTo(ParaPool \cup {ParaNoRuns, ParaIndented}, MaxParas)}

\* the state after DocumentExecutor(doc_path), with the plan the caller holds
InitPlanner ==
    /\ inconsistencies = <<>>
    /\ abnt_issues = <<>>
    /\ structure = [sections |-> <<>>]
    /\ plan_out = <<>>
    /\ first_out = <<>>

\* no analysis has been asked for
InitPipeline ==
    /\ fs = {}
    /\ fs_init = {}
    /\ reqs = <<>>

NotValidated == [called |-> FALSE]

InitValidator ==
    /\ pdf = <<>>
    /\ validation = NotValidated
    /\ formatting = NotValidated
    /\ response = NotValidated

InitAnalyzer ==
    /\ complete_vision = [structure |-> [sections |-> <<>>, paragraphs |-> <<>>]]
    /\ ai = "answers"
    /\ analysis = NotCalled
    /\ first_issues = <<>>

Init ==
    /\ \/ /\ doc \in ParaDocs
          /\ action_plan \in {<<a>> : a \in ParagraphActions \cup MalformedActions}
       \/ /\ doc \in SectionDocs
          /\ action_plan \in {<<a>> : a \in MarginActions}
       \/ /\ doc \in PlanDocs
          /\ action_plan \in SeqsUpTo(PlanActions, MaxPlan)
       \/ /\ doc \in SmartDocs
          /\ action_plan = Planned(doc)
    /\ doc_init = doc
    /\ sorted_plan = <<>>
    /\ idx = 0
    /\ results = <<>>
    /\ actions_log = <<>>
    /\ pc = "idle"
    /\ calls = 0
    /\ doc_at_end = <<>>
    /\ InitPlanner
    /\ InitAnalyzer
    /\ InitValidator
    /\ InitPipeline

Next ==
    \/ Call /\ UNCHANGED <<planVars, analyzeVars, validateVars, pipeVars>>
    \/ Step /\ UNCHANGED <<planVars, analyzeVars, validateVars, pipeVars>>
    \/ Finish /\ UNCHANGED <<planVars, analyzeVars, validateVars, pipeVars>>
    \/ Replay /\ UNCHANGED <<planVars, analyzeVars, validateVars, pipeVars>>

Spec == Init /\ [][Next]_vars

(***************************************************************************)
(* Properties of the executor.                                             *)
(***************************************************************************)
\* the actions of seq whose sort key is p, in their order
WithKey(seq, p) ==
    LET HasKey(a) == Priority(a) = p IN SelectSeq(seq, HasKey)

Keys(seq) == {Priority(seq[i]) : i \in 1..Len(seq)}

\* C1: the actions are applied in non-decreasing order of priority, and the
\* actions of one priority in the order the input plan gives them: the k-th
\* action applied is the k-th of a list that holds the actions of the plan
\* sorted by priority, each priority's actions in their input order.
C1_PriorityOrder ==
    pc # "idle" =>
        /\ Len(sorted_plan) = Len(action_plan)
        /\ \A i, j \in 1..Len(sorted_plan) :
             i < j => Priority(sorted_plan[i]) <= Priority(sorted_plan[j])
        /\ \A p \in Keys(action_plan) \cup Keys(sorted_plan) :
             WithKey(sorted_plan, p) = WithKey(action_plan, p)
        /\ \A k \in 1..Len(results) :
             /\ results[k].action = sorted_plan[k]
             /\ results[k].action_index = k - 1
        /\ \A i, j \in 1..Len(results) :
             i < j => Priority(results[i].action) <= Priority(results[j].action)

\* a plan of three actions given out of order, two of them different actions
\* of one priority, has been applied to the end
C1_Witness ==
    /\ pc = "returned"
    /\ Len(results) = 3
    /\ sorted_plan # action_plan
    /\ \E i, j \in 1..3 :
         /\ i < j
         /\ Priority(action_plan[i]) = Priority(action_plan[j])
         /\ action_plan[i] # action_plan[j]
         /\ Priority(action_plan[i]) < Priority(action_plan[1])

\* C2: no action aborts the plan: a failing action is recorded with status
\* error and the message of its exception, every action of the plan is
\* executed once, and the call returns one result per action.
C2_EveryActionRecorded ==
    /\ pc # "raised"
    /\ pc = "returned" =>
         /\ Len(results) = Len(action_plan)
         /\ \A k \in 1..Len(results) :
              /\ results[k].action = sorted_plan[k]
              /\ results[k].status \in {"success", "error"}
              /\ results[k].status = "error" => results[k].value.type # "str"

\* C3: replaying the action list, a single operation or a whole plan, on the
\* document the first application left changes nothing: the document at the
\* end of every later call is the document at the end of the first call.
C3_ReplayChangesNothing ==
    \A k \in 1..Len(doc_at_end) : doc_at_end[k] = doc_at_end[1]

\* a call that changed the document has been replayed to its end
C3_Witness ==
    /\ Len(doc_at_end) >= 2
    /\ doc_at_end[1] # doc_init
    /\ \E k \in 1..Len(results) : results[k].status = "success"

(***************************************************************************)
(* One operation on one document: the plan holds a single action and the   *)
(* first call has executed it.                                             *)
(***************************************************************************)
ParagraphOps == {"fix_font", "fix_spacing", "fix_alignment", "fix_indent"}

SingleDone ==
    /\ Len(action_plan) = 1
    /\ calls = 1
    /\ Len(results) = 1

WellFormed(a) == {"action", "target", "params"} \subseteq DOMAIN a

SingleParagraphOp ==
    /\ SingleDone
    /\ WellFormed(action_plan[1])
    /\ action_plan[1].action \in ParagraphOps

SingleMargin ==
    /\ SingleDone
    /\ WellFormed(action_plan[1])
    /\ action_plan[1].action = "fix_margin"

\* s starts with word, whatever the case of its letters
StartsWithAnyCase(s, lower, upper) ==
    /\ Len(s) >= Len(lower)
    /\ \A i \in 1..Len(lower) : s[i] \in {lower[i], upper[i]}

HeadingStyle(p) ==
    \/ StartsWithAnyCase(p.style, S_heading, <<"H", "E", "A", "D", "I", "N", "G">>)
    \/ StartsWithAnyCase(p.style, S_titulo, <<"T", "Í", "T", "U", "L", "O">>)

\* the text of the paragraph is empty or whitespace only
BlankText(p) ==
    \A j \in 1..Len(p.runs) :
        \A c \in 1..Len(p.runs[j].text) : p.runs[j].text[c] \in {" ", "\t", "\n"}

\* paragraph q carries what operation op assigns under params
Assigned(op, params, q) ==
    CASE op = "fix_font" ->
           \A j \in 1..Len(q.runs) :
               /\ q.runs[j].font_name = Get(params, "name", "Arial")
               /\ q.runs[j].font_size = Get(params, "size", 1200) * 127
      [] op = "fix_spacing" -> q.line_spacing = Get(params, "line_spacing", 150)
      [] op = "fix_alignment" ->
           q.alignment =
               (CASE Get(params, "alignment", "justify") = "left" -> "LEFT"
                  [] Get(params, "alignment", "justify") = "center" -> "CENTER"
                  [] Get(params, "alignment", "justify") = "right" -> "RIGHT"
                  [] OTHER -> "JUSTIFY")
      [] op = "fix_indent" ->
           q.first_line_indent = Get(params, "first_line", 125) * 3600

\* C4: all_body leaves every heading as it was, whatever the operation and
\* however it ends, and fix_indent also every paragraph of blank text; when
\* the operation succeeds, every other paragraph carries what it assigns and
\* is counted.
C4_AllBodySkipsHeadings ==
    (SingleParagraphOp /\ action_plan[1].target = S_all_body) =>
        LET op == action_plan[1].action
            Excluded(p) == HeadingStyle(p) \/ (op = "fix_indent" /\ BlankText(p))
            before == doc_init.paragraphs
            after == doc.paragraphs
        IN /\ Len(after) = Len(before)
           /\ \A i \in 1..Len(before) :
                Excluded(before[i]) => after[i] = before[i]
           /\ results[1].status = "success" =>
                /\ \A i \in 1..Len(before) :
                     ~Excluded(before[i]) =>
                         Assigned(op, action_plan[1].params, after[i])
                /\ results[1].value.n =
                     Cardinality({i \in 1..Len(before) : ~Excluded(before[i])})

\* fix_indent on all_body has changed a body paragraph and skipped a heading
\* in capitals and a paragraph of blank text
C4_Witness ==
    /\ SingleParagraphOp
    /\ action_plan[1].target = S_all_body
    /\ action_plan[1].action = "fix_indent"
    /\ results[1].status = "success"
    /\ doc # doc_init
    /\ \E i \in 1..Len(doc_init.paragraphs) :
         doc_init.paragraphs[i].style[2] = "Í"
    /\ \E i \in 1..Len(doc_init.paragraphs) :
         /\ ~HeadingStyle(doc_init.paragraphs[i])
         /\ BlankText(doc_init.paragraphs[i])

\* C5: section_<N> and paragraph_<N> with N no index of the document (N < 0
\* or N >= the number of elements) end with status error and leave the
\* document as it was; with a valid N only element N may change. (Whatever
\* the error says is accepted here: the text "<kind> N não existe" is given
\* for N >= the number of elements only.)
C5_IndexOutOfRange ==
    (/\ SingleDone
     /\ WellFormed(action_plan[1])
     /\ \/ /\ action_plan[1].action = "fix_margin"
           /\ StartsWith(action_plan[1].target, S_section_)
        \/ /\ action_plan[1].action \in ParagraphOps
           /\ StartsWith(action_plan[1].target, S_paragraph_)
     /\ ParseInt(SecondField(action_plan[1].target)).ok) =>
        LET n == ParseInt(SecondField(action_plan[1].target)).val
            margin == action_plan[1].action = "fix_margin"
            count == IF margin THEN Len(doc_init.sections)
                     ELSE Len(doc_init.paragraphs)
        IN IF n >= 0 /\ n < count
           THEN /\ \A i \in 1..Len(doc_init.sections) :
                     (~margin \/ i # n + 1) => doc.sections[i] = doc_init.sections[i]
                /\ \A i \in 1..Len(doc_init.paragraphs) :
                     (margin \/ i # n + 1) => doc.paragraphs[i] = doc_init.paragraphs[i]
           ELSE /\ results[1].status = "error"
                /\ doc = doc_init

\* paragraph i is one the target resolves to, as the operations resolve it:
\* all_body and all by the style and the text, paragraph_<N> by paragraphs[N]
\* of Python, where a negative N counts from the end
Resolved(op, target, paras, i) ==
    IF target = S_all_body
    THEN ~HeadingStyle(paras[i]) /\ (op = "fix_indent" => ~BlankText(paras[i]))
    ELSE IF target = S_all
    THEN op = "fix_indent" => ~BlankText(paras[i])
    ELSE /\ StartsWith(target, S_paragraph_)
         /\ ParseInt(SecondField(target)).ok
         /\ LET n == ParseInt(SecondField(target)).val
            IN \/ n >= 0 /\ i = n + 1
               \/ n < 0 /\ i = Len(paras) + n + 1

\* q is p but for the properties operation op assigns
OnlyOpFields(op, p, q) ==
    CASE op = "fix_font" ->
           /\ [q EXCEPT !.runs = p.runs] = p
           /\ Len(q.runs) = Len(p.runs)
           /\ \A j \in 1..Len(p.runs) :
                [q.runs[j] EXCEPT !.font_name = p.runs[j].font_name,
                                  !.font_size = p.runs[j].font_size] = p.runs[j]
      [] op = "fix_spacing" -> [q EXCEPT !.line_spacing = p.line_spacing] = p
      [] op = "fix_alignment" -> [q EXCEPT !.alignment = p.alignment] = p
      [] op = "fix_indent" ->
           [q EXCEPT !.first_line_indent = p.first_line_indent] = p

\* q keeps the properties of p that operation op assigns and params does not
\* name
UnnamedKept(op, params, p, q) ==
    CASE op = "fix_font" ->
           \A j \in 1..Len(p.runs) :
               /\ "name" \notin DOMAIN params =>
                      q.runs[j].font_name = p.runs[j].font_name
               /\ "size" \notin DOMAIN params =>
                      q.runs[j].font_size = p.runs[j].font_size
      [] op = "fix_spacing" ->
           "line_spacing" \notin DOMAIN params => q.line_spacing = p.line_spacing
      [] op = "fix_alignment" ->
           "alignment" \notin DOMAIN params => q.alignment = p.alignment
      [] op = "fix_indent" ->
           "first_line" \notin DOMAIN params =>
               q.first_line_indent = p.first_line_indent

\* C6, as amended: however the operation ends, it changes only the
\* properties it assigns (the font name and size of the runs, the line
\* spacing, the alignment, the first-line indent), and only on the paragraphs
\* the target resolves to: the text of every paragraph and run, every other
\* property, every other paragraph and all sections are as they were.
C6_FrameOfOperation ==
    SingleParagraphOp =>
        LET op == action_plan[1].action
            before == doc_init.paragraphs
            after == doc.paragraphs
        IN /\ doc.sections = doc_init.sections
           /\ Len(after) = Len(before)
           /\ \A i \in 1..Len(before) :
                IF Resolved(op, action_plan[1].target, before, i)
                THEN OnlyOpFields(op, before[i], after[i])
                ELSE after[i] = before[i]

\* fix_font with a name and no size has changed the runs of the body
\* paragraphs of a document that has a heading too
C6_Witness ==
    /\ SingleParagraphOp
    /\ action_plan[1].action = "fix_font"
    /\ action_plan[1].target = S_all_body
    /\ DOMAIN action_plan[1].params = {"name"}
    /\ results[1].status = "success"
    /\ \E i \in 1..Len(doc.paragraphs) :
         /\ HeadingStyle(doc.paragraphs[i])
         /\ Len(doc.paragraphs[i].runs) > 0
    /\ \E i \in 1..Len(doc.paragraphs) :
         doc.paragraphs[i].runs # doc_init.paragraphs[i].runs

\* C6, as claimed: besides the frame above, a property that params does not
\* name is left as it was.
C6_OnlyNamedProperties ==
    /\ C6_FrameOfOperation
    /\ SingleParagraphOp =>
         \A i \in 1..Len(doc_init.paragraphs) :
             UnnamedKept(action_plan[1].action, action_plan[1].params,
                         doc_init.paragraphs[i], doc.paragraphs[i])

\* the sections carry the margins params names and keep the others
MarginsAssigned(params, before, after) ==
    \A key \in {"top", "bottom", "left", "right"} :
        IF key \in DOMAIN params THEN after[key] = params[key] * 3600
        ELSE after[key] = before[key]

\* no value of params stands for something that is no number
Numeric(params) ==
    \A key \in DOMAIN params \cap {"size", "line_spacing", "first_line", "top",
                                   "bottom", "left", "right"} : params[key] # NaN

\* what C7 says of a successful operation whose target is all or
\* all_sections, Skipped(op, p) being the paragraphs it may pass over;
\* numericOnly leaves out the params that hold a value that is no number
AllTargets(Skipped(_, _), numericOnly) ==
    /\ (SingleParagraphOp /\ action_plan[1].target = S_all
           /\ results[1].status = "success"
           /\ (numericOnly => Numeric(action_plan[1].params))) =>
         LET op == action_plan[1].action
             before == doc_init.paragraphs
         IN /\ \A i \in 1..Len(before) :
                 IF Skipped(op, before[i]) THEN doc.paragraphs[i] = before[i]
                 ELSE Assigned(op, action_plan[1].params, doc.paragraphs[i])
            /\ results[1].value.n =
                 Cardinality({i \in 1..Len(before) : ~Skipped(op, before[i])})
    /\ (SingleMargin /\ action_plan[1].target = S_all_sections
           /\ results[1].status = "success") =>
         /\ Len(doc.sections) = Len(doc_init.sections)
         /\ \A i \in 1..Len(doc_init.sections) :
              MarginsAssigned(action_plan[1].params, doc_init.sections[i],
                              doc.sections[i])
         /\ results[1].value.n = Len(doc_init.sections)

SkipsNone(op, p) == FALSE
SkipsBlankForIndent(op, p) == op = "fix_indent" /\ BlankText(p)

\* C7, as amended: all applies the operation to every paragraph, headings
\* included, except that fix_indent passes over the paragraphs whose text is
\* empty or whitespace only; all_sections applies fix_margin to every section.
C7_AllAppliesToAll == AllTargets(SkipsBlankForIndent, FALSE)

\* fix_indent on all has indented a heading and passed over a blank paragraph
C7_Witness ==
    /\ SingleParagraphOp
    /\ action_plan[1].target = S_all
    /\ action_plan[1].action = "fix_indent"
    /\ results[1].status = "success"
    /\ \E i \in 1..Len(doc.paragraphs) :
         /\ HeadingStyle(doc.paragraphs[i])
         /\ doc.paragraphs[i] # doc_init.paragraphs[i]
    /\ \E i \in 1..Len(doc.paragraphs) : BlankText(doc.paragraphs[i])

\* C7, as claimed: all applies the operation to every paragraph with no
\* exclusion, and all_sections to every section (for params whose values are
\* numbers).
C7_AllWithoutExclusion == AllTargets(SkipsNone, TRUE)

\* C8: after one call on a fresh executor, however it ended, get_summary
\* reports as many actions as the plan holds, successes and failures add up
\* to them, and success_rate is successful / total * 100, 0 for no action.
C8_SummaryAfterOneCall ==
    (calls = 1 /\ pc \in {"returned", "raised"}) =>
        LET summary == get_summary IN
        /\ summary.total_actions = Len(action_plan)
        /\ summary.successful_actions + summary.failed_actions
               = summary.total_actions
        /\ IF summary.total_actions = 0 THEN summary.success_rate.num = 0
           ELSE summary.success_rate.num * summary.total_actions
                    = summary.successful_actions * 100 * summary.success_rate.den

(***************************************************************************)
(* The planner on its own: the inputs are drawn, the executor is idle.     *)
(***************************************************************************)
Issue(type, count) == [type |-> type, affected_count |-> count]

IssuePool ==
    {Issue("inconsistent_fonts", 2), Issue("inconsistent_fonts", 5),
     Issue("inconsistent_alignment", 2), Issue("inconsistent_spacing", 2),
     Issue("inconsistent_indent", 1), Issue("hierarchy", 1)}

AbntIssuePool == {<<>>, <<Issue("inconsistent_fonts", 1), Issue("margins", 1)>>}

Margins(top, bottom, left, right) ==
    [margins |-> [top |-> top, bottom |-> bottom, left |-> left, right |-> right]]

StructurePool ==
    {[paragraphs |-> <<>>],
     [sections |-> <<>>],
     [sections |-> <<Margins(300, 200, 300, 200)>>],
     [sections |-> <<Margins(250, 250, 250, 250)>>],
     [sections |-> <<Margins(300, 200, 300, NoneNum)>>],
     [sections |-> <<Margins(300, 200, 300, 200), Margins(250, 250, 250, 250)>>]}

InitPlan ==
    /\ inconsistencies \in SeqsUpTo(IssuePool, MaxIssues)
    /\ abnt_issues \in AbntIssuePool
    /\ structure \in StructurePool
    /\ plan_out = <<>>
    /\ first_out = <<>>
    /\ doc = DocTen
    /\ doc_init = doc
    /\ action_plan = <<>>
    /\ sorted_plan = <<>>
    /\ idx = 0
    /\ results = <<>>
    /\ actions_log = <<>>
    /\ pc = "idle"
    /\ calls = 0
    /\ doc_at_end = <<>>
    /\ InitAnalyzer
    /\ InitValidator
    /\ InitPipeline

NextPlan ==
    \/ Plan /\ UNCHANGED <<execVars, analyzeVars, validateVars, pipeVars>>
    \/ PlanAgain /\ UNCHANGED <<execVars, analyzeVars, validateVars, pipeVars>>
    \/ PlanPermuted /\ UNCHANGED <<execVars, analyzeVars, validateVars, pipeVars>>

SpecPlan == InitPlan /\ [][NextPlan]_vars

\* the place of an action type in the precedence of the planner
Rank(type) ==
    CASE type = "fix_margin" -> 1
      [] type = "fix_font" -> 2
      [] type = "fix_spacing" -> 3
      [] type = "fix_alignment" -> 4
      [] type = "fix_indent" -> 5
      [] OTHER -> 0

\* C9: whatever the order of the issues, and however often the planner is
\* called, it returns the list of its first call; that list follows the
\* precedence margins, fonts, spacing, alignment, indent in its order and in
\* its priorities, and fix_margin has priority 1.
C9_PlanIndependentOfIssueOrder ==
    Len(first_out) > 0 =>
        /\ plan_out = first_out[1]
        /\ \A i \in 1..Len(plan_out) :
             /\ Rank(plan_out[i].action) > 0
             /\ plan_out[i].action = "fix_margin" => plan_out[i].priority = 1
        /\ \A i, j \in 1..Len(plan_out) :
             i < j => /\ Rank(plan_out[i].action) < Rank(plan_out[j].action)
                      /\ plan_out[i].priority < plan_out[j].priority

\* the planner was called again on the issues in another order, the font
\* issue no longer first, and planned fix_margin and fix_font
C9_Witness ==
    /\ Len(first_out) > 0
    /\ Len(plan_out) >= 3
    /\ plan_out[1].action = "fix_margin"
    /\ plan_out[2].action = "fix_font"
    /\ inconsistencies[1].type # "inconsistent_fonts"
    /\ inconsistencies[Len(inconsistencies)].type = "inconsistent_fonts"

\* C10: the plan holds at most one action of each type, so at most five
\* actions, whatever issues it was made from.
C10_OneActionPerType ==
    Len(first_out) > 0 =>
        /\ \A i, j \in 1..Len(plan_out) :
             plan_out[i].action = plan_out[j].action => i = j
        /\ \A i \in 1..Len(plan_out) : plan_out[i].action \in KnownActions
        /\ Len(plan_out) <= 5

\* a plan was made from issues two of which are of one category
C10_Witness ==
    /\ Len(first_out) > 0
    /\ \E i, j \in 1..Len(inconsistencies) :
         /\ i # j
         /\ inconsistencies[i].type = "inconsistent_spacing"
         /\ inconsistencies[j].type = "inconsistent_spacing"
    /\ \E k \in 1..Len(plan_out) : plan_out[k].action = "fix_spacing"

(***************************************************************************)
(* The analysis on its own: a vision and a behaviour of the AI are drawn,  *)
(* analyze_document_with_ai is called on it, and called again on the       *)
(* vision with a heading restyled.                                         *)
(***************************************************************************)
VRun(name, size) == [font |-> [name |-> name, size |-> size]]

VPara(name, alignment, line_spacing, first_line, runs) ==
    [style |-> [name |-> name, alignment |-> alignment,
                spacing |-> [line_spacing |-> line_spacing],
                indent |-> [first_line |-> first_line]],
     runs |-> runs]

S_Normal == <<"N", "o", "r", "m", "a", "l">>

VArial == VPara(S_Normal, "JUSTIFY (3)", 150, 125, <<VRun("Arial", 1200)>>)
VTimes == VPara(S_Normal, "JUSTIFY (3)", 150, 125, <<VRun("Times New Roman", 1200)>>)
\* a second run without a font name, no spacing and no indent set
VCalibri ==
    VPara(<<"B", "o", "d", "y", " ", "T", "e", "x", "t">>, "None", NoneNum, NoneNum,
          <<VRun("Calibri", 1100), VRun(None, NoneNum)>>)
\* the font of VArial in another size, single spacing, an indent of 0
VArialSmall == VPara(S_Normal, "JUSTIFY (3)", 100, 0, <<VRun("Arial", 1000)>>)
\* the font, spacing and alignment of the norm, no indent set
VArialFlush == VPara(S_Normal, "JUSTIFY (3)", 150, NoneNum, <<VRun("Arial", 1200)>>)
VHeading ==
    VPara(<<"H", "e", "a", "d", "i", "n", "g", " ", "1">>, "CENTER (1)", 100, NoneNum,
          <<VRun("Verdana", 1400)>>)
VTitulo ==
    VPara(<<"T", "Í", "T", "U", "L", "O", " ", "2">>, "RIGHT (2)", 200, 250,
          <<VRun("Georgia", 1600)>>)

VParaPool == {VArial, VTimes, VCalibri, VArialSmall, VArialFlush, VHeading, VTitulo}

\* five body paragraphs in two fonts, three to two, under a heading
VisionSixtyForty == <<VHeading, VArial, VTimes, VArial, VTimes, VArial>>

VSectionsPool ==
    {<<>>,
     <<Margins(300, 200, 300, 200)>>,
     <<Margins(310, 190, 300, 200)>>,
     <<Margins(300, 200, 300, 250)>>,
     <<Margins(250, 250, 250, 250), Margins(300, 200, 300, 200)>>,
     <<Margins(300, 200, 300, NoneNum)>>}

\* every list of paragraphs under the margins of the norm, and every list of
\* sections over a few lists of paragraphs
VisionPool ==
    {[structure |-> [sections |-> <<Margins(300, 200, 300, 200)>>, paragraphs |-> ps]] :
        ps \in SeqsUpTo(VParaPool, MaxVisionParas)}
    \cup {[structure |-> [sections |-> ss, paragraphs |-> ps]] :
            ss \in VSectionsPool,
            ps \in {<<>>, <<VArial, VHeading>>, <<VTitulo, VCalibri, VArialSmall, VTimes>>,
                    VisionSixtyForty}}

\* the paragraph is a heading, whatever the case of its style name
VisionHeading(p) ==
    \/ StartsWithAnyCase(p.style.name, S_heading, <<"H", "E", "A", "D", "I", "N", "G">>)
    \/ StartsWithAnyCase(p.style.name, S_titulo, <<"T", "Í", "T", "U", "L", "O">>)

\* p with the font, alignment, line spacing and indent of q
Restyled(p, q) ==
    [style |-> [name |-> p.style.name, alignment |-> q.style.alignment,
                spacing |-> q.style.spacing, indent |-> q.style.indent],
     runs |-> q.runs]

\* the paragraphs whose font, alignment, line spacing and indent a heading is
\* given
RestylePool == {VTimes, VCalibri}

\* a call on the vision of a document that differs from the one analysed in
\* the font, alignment, line spacing and indent of one heading
RestyleHeading ==
    /\ analysis.called
    /\ \E i \in 1..Len(complete_vision.structure.paragraphs), q \in RestylePool :
         /\ VisionHeading(complete_vision.structure.paragraphs[i])
         /\ complete_vision' =
                [complete_vision EXCEPT !.structure.paragraphs[i] = Restyled(@, q)]
         /\ complete_vision' # complete_vision
    /\ Analyzed(complete_vision')
    /\ UNCHANGED ai

InitAnalyze ==
    /\ \/ /\ complete_vision \in VisionPool
          /\ ai = "answers"
       \/ /\ complete_vision \in
                {v \in VisionPool : v.structure.paragraphs = VisionSixtyForty}
          /\ ai \in AIModes
    /\ analysis = NotCalled
    /\ first_issues = <<>>
    /\ InitPlanner
    /\ InitValidator
    /\ InitPipeline
    /\ doc = DocTen
    /\ doc_init = doc
    /\ action_plan = <<>>
    /\ sorted_plan = <<>>
    /\ idx = 0
    /\ results = <<>>
    /\ actions_log = <<>>
    /\ pc = "idle"
    /\ calls = 0
    /\ doc_at_end = <<>>

NextAnalyze ==
    \/ Analyze /\ UNCHANGED <<execVars, validateVars, pipeVars>>
    \/ RestyleHeading /\ UNCHANGED <<execVars, validateVars, pipeVars>>

SpecAnalyze == InitAnalyze /\ [][NextAnalyze]_vars

(***************************************************************************)
(* Properties of the detector and of the plan made from what it finds.     *)
(***************************************************************************)
\* the call has returned: the issues and the plan are those of the vision
Analysed == analysis.called /\ ~analysis.raised

\* the body paragraphs of the vision, by their positions
BodyOf(vision) ==
    {i \in 1..Len(vision.structure.paragraphs) :
        ~VisionHeading(vision.structure.paragraphs[i])}

\* the (name, size) pairs of the runs of the body paragraphs that name a font
BodyFonts(vision) ==
    {<<vision.structure.paragraphs[i].runs[j].font.name,
       vision.structure.paragraphs[i].runs[j].font.size>> :
        <<i, j>> \in {ij \in BodyOf(vision) \X (1..4) :
                         /\ ij[2] <= Len(vision.structure.paragraphs[ij[1]].runs)
                         /\ vision.structure.paragraphs[ij[1]].runs[ij[2]].font.name
                                \notin {None, ""}}}

IssuesOfType(issues, type) == {i \in 1..Len(issues) : issues[i].type = type}

ActionsOfType(plan, type) == {i \in 1..Len(plan) : plan[i].action = type}

\* the issue of the fonts counts every body paragraph, and the one fix_font
\* of the plan carries Arial 12 on all_body
FontsReported ==
    /\ Cardinality(IssuesOfType(inconsistencies, "inconsistent_fonts")) = 1
    /\ \A i \in IssuesOfType(inconsistencies, "inconsistent_fonts") :
         inconsistencies[i].affected_count = Cardinality(BodyOf(complete_vision))
    /\ Cardinality(ActionsOfType(plan_out, "fix_font")) = 1
    /\ \A i \in ActionsOfType(plan_out, "fix_font") :
         /\ plan_out[i].params = [name |-> "Arial", size |-> 1200]
         /\ plan_out[i].target = S_all_body

\* C11, as amended: when the runs of the body paragraphs use more than two
\* different fonts (name and size), the detector emits one inconsistent_fonts
\* issue whose affected_count is the number of body paragraphs, and the
\* planner one fix_font with Arial 12 whatever the fonts were; with two
\* fonts or fewer there is no such issue and no fix_font.
C11_MoreThanTwoFonts ==
    (Analysed /\ BodyOf(complete_vision) # {}) =>
        IF Cardinality(BodyFonts(complete_vision)) > 2
        THEN FontsReported
        ELSE /\ IssuesOfType(inconsistencies, "inconsistent_fonts") = {}
             /\ ActionsOfType(plan_out, "fix_font") = {}

\* three fonts none of which is Arial 12 have been reported, over more body
\* paragraphs than fonts
C11_Witness ==
    /\ Analysed
    /\ Cardinality(BodyFonts(complete_vision)) > 2
    /\ <<"Arial", 1200>> \notin BodyFonts(complete_vision)
    /\ \E i \in 1..Len(inconsistencies) :
         /\ inconsistencies[i].type = "inconsistent_fonts"
         /\ inconsistencies[i].affected_count >= 2
    /\ ActionsOfType(plan_out, "fix_font") # {}

\* C11, as claimed: exactly two different fonts among the body paragraphs
\* give the inconsistent_fonts issue and the one fix_font.
C11_TwoFontsReported ==
    (Analysed /\ Cardinality(BodyFonts(complete_vision)) = 2) => FontsReported

\* the margins of the norm, in hundredths of a centimetre
NormMargins == [top |-> 300, left |-> 300, bottom |-> 200, right |-> 200]

Axes == {"top", "left", "bottom", "right"}

\* the margin of section 0 on the axis is a length that is further from the
\* norm than the tolerance
Deviates(vision, axis) ==
    /\ Len(vision.structure.sections) > 0
    /\ vision.structure.sections[1].margins[axis] # NoneNum
    /\ Abs(vision.structure.sections[1].margins[axis] - NormMargins[axis])
           > tolerance_cm

\* the issues that are about the margins
MarginIssues(issues) ==
    {i \in 1..Len(issues) : issues[i].type \in {"margins", "inconsistent_margins"}}

\* the plan holds one fix_margin, and it sets section 0 to the norm
OneMarginFix ==
    /\ Cardinality(ActionsOfType(plan_out, "fix_margin")) = 1
    /\ \A i \in ActionsOfType(plan_out, "fix_margin") :
         /\ plan_out[i].params = NormMargins
         /\ plan_out[i].target = S_section_ \o <<"0">>
         /\ plan_out[i].priority = 1

\* C12, as amended: when a margin of section 0 deviates from the norm by
\* more than the tolerance, the rule-based detector emits no margin issue
\* (its issues are about fonts, alignment, spacing and indent only), and the
\* planner, which reads the margins itself, emits exactly one fix_margin on
\* section_0 whose params are the values of the norm.
C12_MarginFixWithoutIssue ==
    (Analysed /\ \E axis \in Axes : Deviates(complete_vision, axis)) =>
        /\ \A i \in 1..Len(inconsistencies) :
             inconsistencies[i].type \in {"inconsistent_fonts", "inconsistent_alignment",
                                          "inconsistent_spacing", "inconsistent_indent"}
        /\ OneMarginFix

\* only the right margin of section 0 deviates, and the plan was made
C12_Witness ==
    /\ Analysed
    /\ Deviates(complete_vision, "right")
    /\ \A axis \in Axes \ {"right"} : ~Deviates(complete_vision, axis)
    /\ Len(plan_out) > 0
    /\ plan_out[1].action = "fix_margin"

\* C12, as claimed: a deviation on an axis gives exactly one margin issue of
\* the detector, which lists that axis, and exactly one fix_margin with the
\* values of the norm.
C12_OneMarginIssue ==
    (Analysed /\ \E axis \in Axes : Deviates(complete_vision, axis)) =>
        /\ Cardinality(MarginIssues(inconsistencies)) = 1
        /\ \A i \in MarginIssues(inconsistencies) :
             \A axis \in Axes :
                 Deviates(complete_vision, axis) =>
                     \E k \in 1..Len(inconsistencies[i].description.args) :
                         inconsistencies[i].description.args[k] = axis
        /\ OneMarginFix

\* the body paragraphs follow the norm in what the claim names: every run
\* that names a font is Arial 12, every line spacing is 1.5, and there is one
\* alignment
BodyFollowsNorm(vision) ==
    /\ BodyFonts(vision) \subseteq {<<"Arial", 1200>>}
    /\ \A i \in BodyOf(vision) :
         vision.structure.paragraphs[i].style.spacing.line_spacing = 150
    /\ \A i, j \in BodyOf(vision) :
         vision.structure.paragraphs[i].style.alignment
             = vision.structure.paragraphs[j].style.alignment

\* every margin of section 0 is a length within the tolerance of the norm
MarginsWithinTolerance(vision) ==
    /\ Len(vision.structure.sections) > 0
    /\ \A axis \in Axes :
         /\ vision.structure.sections[1].margins[axis] # NoneNum
         /\ ~Deviates(vision, axis)

MarginsOfNorm(vision) ==
    /\ Len(vision.structure.sections) > 0
    /\ vision.structure.sections[1].margins = NormMargins

\* the body paragraph has a first-line indent above 0
HasIndent(p) ==
    p.style.indent.first_line # NoneNum /\ p.style.indent.first_line > 0

\* all body paragraphs have a first-line indent, or none has
IndentUniform(vision) ==
    \A i, j \in BodyOf(vision) :
        HasIndent(vision.structure.paragraphs[i])
            <=> HasIndent(vision.structure.paragraphs[j])

\* C13, as amended: when the margins of section 0 are exactly those of the
\* norm, the body paragraphs use Arial 12, line spacing 1.5 and one
\* alignment, and either all or none of them has a first-line indent, the
\* detector returns no issue and the planner an empty plan.
C13_CompliantDocumentNoPlan ==
    (/\ Analysed
     /\ MarginsOfNorm(complete_vision)
     /\ BodyFollowsNorm(complete_vision)
     /\ IndentUniform(complete_vision)) =>
        /\ inconsistencies = <<>>
        /\ plan_out = <<>>

\* a compliant document of two body paragraphs without indent, or of a body
\* paragraph under a heading in another font, has been analysed
C13_Witness ==
    /\ Analysed
    /\ MarginsOfNorm(complete_vision)
    /\ BodyFollowsNorm(complete_vision)
    /\ IndentUniform(complete_vision)
    /\ Cardinality(BodyOf(complete_vision)) = 2
    /\ \A i \in BodyOf(complete_vision) :
         ~HasIndent(complete_vision.structure.paragraphs[i])
    /\ plan_out = <<>>

\* C13, as claimed: margins within the tolerance and body paragraphs in
\* Arial 12, spacing 1.5 and one alignment give no issue and no action.
C13_WithinToleranceNoPlan ==
    (/\ Analysed
     /\ MarginsWithinTolerance(complete_vision)
     /\ BodyFollowsNorm(complete_vision)) =>
        /\ inconsistencies = <<>>
        /\ plan_out = <<>>

\* C14: the issues depend on the body paragraphs only: the issues found for a
\* document are those found for the document it was before headings were
\* given another font, alignment, line spacing and indent, and a document
\* with no body paragraph has no issue.
C14_HeadingsDoNotMatter ==
    Analysed =>
        /\ inconsistencies = first_issues[1]
        /\ BodyOf(complete_vision) = {} => inconsistencies = <<>>

\* a heading in capitals now has the style of a body paragraph of the pool,
\* next to body paragraphs that have issues
C14_Witness ==
    /\ Analysed
    /\ inconsistencies # <<>>
    /\ \E i \in 1..Len(complete_vision.structure.paragraphs) :
         /\ complete_vision.structure.paragraphs[i].style.name[2] = "Í"
         /\ complete_vision.structure.paragraphs[i].runs
                = <<VRun("Times New Roman", 1200)>>

\* C16: whatever the AI does, absent, failing or answering what cannot be
\* parsed, analyze_document_with_ai returns, and what it returns holds the
\* rule-based issues of the vision and the plan made from them.
C16_AISoftDependency ==
    (analysis.called /\ ai \in {"not_configured", "raises", "unparsable"}) =>
        /\ ~analysis.raised
        /\ analysis.value.inconsistencies
               = detect_style_inconsistencies(complete_vision)
        /\ analysis.value.action_plan
               = generate_action_plan_from_issues(
                     <<>>, detect_style_inconsistencies(complete_vision),
                     complete_vision.structure)


(***************************************************************************)
(* The rendered documents the validator is run on: A4 pages whose blocks   *)
(* are drawn from a pool of text blocks as page.get_text("dict") reports   *)
(* them (every text block has a line, every line a span, and the bbox of   *)
(* a block encloses its lines) and an image block.                         *)
(***************************************************************************)
ArialMT == <<"A", "r", "i", "a", "l", "M", "T">>
TimesNewRomanPSMT == <<"T", "i", "m", "e", "s", "N", "e", "w">>
Calibri == <<"C", "a", "l", "i", "b", "r", "i">>

Span(font, size) == [font |-> font, size |-> size]
Line(bbox, spans) == [bbox |-> bbox, spans |-> spans]

TextBlock(lines) ==
    LET X0(l) == l.bbox[1]
        Y0(l) == l.bbox[2]
        X1(l) == l.bbox[3]
        Y1(l) == l.bbox[4]
    IN [type |-> 0,
        bbox |-> <<MinOf(MapSeq(X0, lines)), MinOf(MapSeq(Y0, lines)),
                   MaxOf(MapSeq(X1, lines)), MaxOf(MapSeq(Y1, lines))>>,
        lines |-> lines]

ImageBlock(bbox) == [type |-> 1, bbox |-> bbox]

Page(blocks) == [width |-> 595, height |-> 842, blocks |-> blocks]

\* two justified lines at the top of the text area, half a line apart
BBody(font) == TextBlock(<<Line(<<90, 90, 530, 104>>, <<Span(font, 120)>>),
                           Line(<<90, 111, 530, 125>>, <<Span(font, 120)>>)>>)
\* the last line of the page
BFoot(font) == TextBlock(<<Line(<<90, 763, 530, 777>>, <<Span(font, 100)>>)>>)
\* a line that stops short of the right margin, in two fonts
BRagged == TextBlock(<<Line(<<90, 132, 530, 146>>, <<Span(ArialMT, 120)>>),
                       Line(<<90, 153, 300, 167>>,
                            <<Span(TimesNewRomanPSMT, 120), Span(Calibri, 110)>>)>>)
\* a large title outside the text area
BBig == TextBlock(<<Line(<<20, 10, 300, 60>>, <<Span(Calibri, 400)>>)>>)
\* two lines far apart
BFar == TextBlock(<<Line(<<90, 200, 530, 214>>, <<Span(ArialMT, 120)>>),
                    Line(<<90, 600, 530, 614>>, <<Span(ArialMT, 120)>>)>>)
\* a line of no height before a line that overlaps it
BFlat == TextBlock(<<Line(<<90, 300, 530, 300>>, <<Span(ArialMT, 120)>>),
                     Line(<<90, 290, 530, 304>>, <<Span(ArialMT, 120)>>),
                     Line(<<90, 280, 530, 294>>, <<Span(ArialMT, 120)>>)>>)
BImage == ImageBlock(<<0, 0, 595, 400>>)

BlockPool == {BBody(ArialMT), BFoot(ArialMT), BBody(Calibri), BFoot(Calibri),
              BRagged, BBig, BFar, BFlat, BImage}

FirstPagePool == {Page(blocks) : blocks \in SeqsUpTo(BlockPool, MaxBlocks)}

LaterPagePool == {Page(<<>>), Page(<<BBig>>)}

\* a document whose fourth page alone would change the main size
PdfFourPages == <<Page(<<BBody(ArialMT), BFoot(ArialMT)>>), Page(<<>>),
                  Page(<<BImage>>), Page(<<BBig, BBig, BBig, BBig>>)>>

\* two lines of single-spaced text, a fifth of a line apart
BTight == TextBlock(<<Line(<<90, 90, 530, 100>>, <<Span(ArialMT, 120)>>),
                      Line(<<90, 102, 530, 112>>, <<Span(ArialMT, 120)>>)>>)

\* a single-spaced page inside the margins of the norm
PdfSingleSpaced == <<Page(<<BTight, BFoot(ArialMT)>>)>>

PdfPool == {<<>>, PdfFourPages, PdfSingleSpaced}
           \cup {<<first>> \o rest : first \in FirstPagePool,
                                     rest \in SeqsUpTo(LaterPagePool, MaxPages - 1)}

Returned(value) == [called |-> TRUE, value |-> value]

ValidateQuality ==
    /\ ~validation.called
    /\ validation' = Returned(validate_document_quality(pdf))
    /\ UNCHANGED <<pdf, formatting, response>>

ValidateFormatting ==
    /\ ~formatting.called
    /\ \E original \in {<<>>, pdf} :
           formatting' = Returned(validate_formatting(original, pdf))
    /\ UNCHANGED <<pdf, validation, response>>

ValidateDocument ==
    /\ ~response.called
    /\ \E conversion_success \in BOOLEAN :
           response' = Returned(validate_document(conversion_success, pdf))
    /\ UNCHANGED <<pdf, validation, formatting>>

InitValidate ==
    /\ pdf \in PdfPool
    /\ validation = NotValidated
    /\ formatting = NotValidated
    /\ response = NotValidated
    /\ InitPlanner
    /\ InitAnalyzer
    /\ InitPipeline
    /\ doc = DocTen
    /\ doc_init = doc
    /\ action_plan = <<>>
    /\ sorted_plan = <<>>
    /\ idx = 0
    /\ results = <<>>
    /\ actions_log = <<>>
    /\ pc = "idle"
    /\ calls = 0
    /\ doc_at_end = <<>>

NextValidate ==
    \/ ValidateQuality /\ UNCHANGED <<execVars, planVars, analyzeVars, pipeVars>>
    \/ ValidateFormatting /\ UNCHANGED <<execVars, planVars, analyzeVars, pipeVars>>
    \/ ValidateDocument /\ UNCHANGED <<execVars, planVars, analyzeVars, pipeVars>>

SpecValidate == InitValidate /\ [][NextValidate]_vars

\* the category results of a returned validation
Scores(result) == {result[category].score : category \in {"margins", "fonts", "spacing", "alignment"}}

\* C17: every category score and the overall score that
\* validate_document_quality and validate_formatting return lie between 0
\* and 100.
C17_ScoresInRange ==
    /\ validation.called =>
           \A score \in Scores(validation.value) \cup {validation.value.overall_score} :
               0 <= score /\ score <= 1000
    /\ formatting.called =>
           \A score \in Scores(formatting.value) \cup {formatting.value.overall_score} :
               0 <= score /\ score <= 1000

\* both entry points have scored a document in which a penalty exceeds the
\* whole score of its category
C17_Witness ==
    /\ validation.called
    /\ formatting.called
    /\ validation.value.margins.score = 0
    /\ validation.value.spacing.score = 0
    /\ "main_size" \in DOMAIN validation.value.fonts
    /\ validation.value.fonts.main_size > 220
    /\ formatting.value.overall_score < 1000

\* the document has no page, or one page without a text span
NoText == Len(pdf) = 0 \/ (Len(pdf) = 1 /\ Len(PageSpans(pdf[1])) = 0)

AllDegenerate(result) ==
    /\ \A category \in {"margins", "fonts", "spacing", "alignment"} :
           /\ ~result[category].valid
           /\ result[category].score = 0
           /\ "reason" \in DOMAIN result[category]
    /\ result.overall_score = 0
    /\ ~result.overall_valid

\* C18: for a document of zero pages, or of a single page with zero text
\* spans, both entry points return (they do not raise) every category
\* invalid with score 0 and a reason, an overall score of 0 and
\* overall_valid false.
C18_DegenerateDocument ==
    NoText =>
        /\ validation.called => AllDegenerate(validation.value)
        /\ formatting.called => AllDegenerate(formatting.value)

\* both entry points have returned for a single page that holds an image
\* and no text
C18_Witness ==
    /\ Len(pdf) = 1
    /\ Len(pdf[1].blocks) > 0
    /\ NoText
    /\ validation.called
    /\ formatting.called

ReportedScores(result) ==
    <<result.margins.score, result.fonts.score, result.spacing.score,
      result.alignment.score>>

\* C19: in both entry points overall_score is the mean of the four category
\* scores and overall_valid is overall_score >= 90, /validate reports
\* is_abnt_compliant as overall_score >= 85, and so both entry points give
\* the same overall_score for the same document.
C19_OverallIsMeanOfCategories ==
    /\ validation.called =>
           /\ validation.value.overall_score
                  = MeanScore(ReportedScores(validation.value))
           /\ validation.value.overall_valid
                  <=> validation.value.overall_score >= 900
    /\ formatting.called =>
           /\ formatting.value.overall_score
                  = MeanScore(ReportedScores(formatting.value))
           /\ formatting.value.overall_valid
                  <=> formatting.value.overall_score >= 900
    /\ (response.called /\ response.value.status = 200) =>
           (response.value.is_abnt_compliant
                <=> response.value.overall_score >= 850)
    /\ (validation.called /\ formatting.called) =>
           validation.value.overall_score = formatting.value.overall_score

(***************************************************************************)
(* The endpoints of routers/document.py that render a document: each       *)
(* request is served in steps that read or write the files under uploads/  *)
(* and processed/, and the steps of two requests served by different       *)
(* worker processes interleave. A path is <<directory, prefix, stem,       *)
(* suffix>> of "directory/prefix" + "stem" + "suffix"; an uploaded         *)
(* filename is its stem followed by ".docx".                               *)
(***************************************************************************)
UPLOAD_DIR == "uploads"
PROCESSED_DIR == "processed"

Uploaded(filename) == <<UPLOAD_DIR, "", filename, ".docx">>
Processed(prefix, filename) == <<PROCESSED_DIR, prefix, filename, ".docx">>

\* path.replace(".docx", suffix)
ReplaceDocx(path, suffix) ==
    IF path[4] = ".docx" THEN [path EXCEPT ![4] = suffix] ELSE path

NoPath == <<"", "", "", "">>

Endpoints == {"complete-vision", "analyze-structure", "smart-format", "validate"}

\* what the conversion step finds installed: docx2pdf, which writes the pdf
\* where it is asked to; LibreOffice, which writes stem.pdf into the
\* directory of the pdf; or neither
Converters == {"docx2pdf", "libreoffice", "unavailable"}

NoAnalysis == [raised |-> FALSE, actions |-> 0]

NewRequest(endpoint, filename, converter) ==
    [endpoint |-> endpoint, filename |-> filename, converter |-> converter,
     pc |-> "locate", docx_path |-> NoPath, pdf_path |-> NoPath,
     conversion_success |-> FALSE, visual |-> None, visual_margins |-> None,
     note |-> FALSE, analysis |-> NoAnalysis, status |-> 0, success |-> FALSE,
     opens |-> TRUE, created |-> {}, saved |-> {}]

\* the request whose render, once written, fitz.open can or cannot read
Rendering(r, opens) == [r EXCEPT !.opens = opens]

\* extract_complete_structure of a stored document
StructureOf(filename) ==
    IF filename = "a"
    THEN [structure |-> [sections |-> <<Margins(250, 250, 250, 250)>>,
                         paragraphs |-> <<VArial, VHeading>>]]
    ELSE [structure |-> [sections |-> <<Margins(300, 200, 300, 200)>>,
                         paragraphs |-> <<VArial, VHeading>>]]

Candidates(endpoint, filename) ==
    CASE endpoint = "smart-format" -> <<Uploaded(filename)>>
      [] endpoint = "validate" ->
             <<Processed("smart_formatted_", filename),
               Processed("formatted_", filename),
               Processed("edited_", filename),
               Processed("", filename),
               Uploaded(filename)>>
      [] OTHER -> <<Uploaded(filename), Processed("formatted_", filename),
                    Processed("edited_", filename)>>

TempSuffix(endpoint) ==
    IF endpoint = "validate" THEN "_validation.pdf" ELSE "_temp.pdf"

Answered(r, status) == [r EXCEPT !.pc = "done", !.status = status]

Located(r, files) ==
    LET Exists(path) == path \in files
        found == SelectSeq(Candidates(r.endpoint, r.filename), Exists)
    IN IF Len(found) = 0
       THEN [req |-> Answered(r, 404), files |-> files]
       ELSE [req |-> [r EXCEPT !.pc = "convert",
                               !.docx_path = found[1],
                               !.pdf_path = ReplaceDocx(found[1],
                                                        TempSuffix(r.endpoint))],
             files |-> files]

convert_docx_to_pdf(docx_path, pdf_path, converter, files) ==
    IF docx_path \notin files
    THEN [files |-> files, returned |-> FALSE, wrote |-> {}]
    ELSE CASE converter = "docx2pdf" ->
                  [files |-> files \cup {pdf_path}, returned |-> TRUE,
                   wrote |-> {pdf_path}]
           [] converter = "libreoffice" ->
                  LET written == files \cup {ReplaceDocx(docx_path, ".pdf")}
                  IN [files |-> written, returned |-> pdf_path \in written,
                      wrote |-> {ReplaceDocx(docx_path, ".pdf")}]
           [] converter = "unavailable" ->
                  [files |-> files, returned |-> pdf_path \in files, wrote |-> {}]

Converted(r, files) ==
    LET out == convert_docx_to_pdf(r.docx_path, r.pdf_path, r.converter, files)
    IN [req |-> [r EXCEPT !.pc = "check", !.conversion_success = out.returned,
                          !.created = out.wrote],
        files |-> out.files]

\* the else branch of "if conversion_success and os.path.exists(pdf_path)"
Degraded(r) ==
    CASE r.endpoint = "validate" -> Answered(r, 500)
      [] r.endpoint = "complete-vision" -> [Answered(r, 200) EXCEPT !.note = TRUE]
      [] OTHER -> [r EXCEPT !.pc = "analyze"]

Checked(r, files) ==
    [req |-> IF r.conversion_success /\ r.pdf_path \in files
             THEN [r EXCEPT !.pc = "extract"]
             ELSE Degraded(r),
     files |-> files]

\* extract_visual_layout and validate_document_quality open the pdf
Extracted(r, files) ==
    [req |-> IF r.pdf_path \in files /\ r.opens
             THEN [r EXCEPT !.pc = "remove", !.visual = "layout",
                            !.visual_margins = "margins"]
             ELSE Answered(r, 500),
     files |-> files]

\* os.remove(pdf_path), any error ignored
Removed(r, files) ==
    [req |-> IF r.endpoint \in {"complete-vision", "validate"}
             THEN Answered(r, 200)
             ELSE [r EXCEPT !.pc = "analyze"],
     files |-> files \ {r.pdf_path}]

\* what the endpoint does with what analyze_document_with_ai did
AfterAnalysis(r, out) ==
    LET actions == IF out.raised THEN 0 ELSE Len(ExecutedPlan(out))
        with == [r EXCEPT !.analysis = [raised |-> out.raised, actions |-> actions]]
    IN IF out.raised THEN Answered(with, 500)
       ELSE IF r.endpoint = "analyze-structure"
       THEN [Answered(with, 200) EXCEPT !.success = actions > 0]
       ELSE IF actions = 0 THEN Answered(with, 200)
       ELSE [with EXCEPT !.pc = "execute"]

AnalyzedBy(r, files) ==
    [req |-> AfterAnalysis(r, analyze_document_with_ai(StructureOf(r.filename), ai)),
     files |-> files]

\* a smart-format that saves the result over the document it was given
ExecutedInPlace(r, files) ==
    [req |-> [Answered(r, 200) EXCEPT !.success = TRUE, !.saved = {r.docx_path}],
     files |-> files \cup {r.docx_path}]

\* DocumentExecutor(file_location), execute_action_plan and save(output_path);
\* saved is what save() wrote
Executed(r, files) ==
    [req |-> [Answered(r, 200) EXCEPT
                 !.success = TRUE,
                 !.saved = {Processed("smart_formatted_", r.filename)}],
     files |-> files \cup {Processed("smart_formatted_", r.filename)}]

StepOf(r, files) ==
    CASE r.pc = "locate" -> Located(r, files)
      [] r.pc = "convert" -> Converted(r, files)
      [] r.pc = "check" -> Checked(r, files)
      [] r.pc = "extract" -> Extracted(r, files)
      [] r.pc = "remove" -> Removed(r, files)
      [] r.pc = "analyze" -> AnalyzedBy(r, files)
      [] r.pc = "execute" -> Executed(r, files)

\* request i, which stands at the step, takes it
Serve(i, at, out) ==
    /\ reqs[i].pc = at
    /\ reqs' = [reqs EXCEPT ![i] = out.req]
    /\ fs' = out.files
    /\ UNCHANGED fs_init

Locate == \E i \in DOMAIN reqs : Serve(i, "locate", Located(reqs[i], fs))
Convert == \E i \in DOMAIN reqs : Serve(i, "convert", Converted(reqs[i], fs))
Check == \E i \in DOMAIN reqs : Serve(i, "check", Checked(reqs[i], fs))
Extract == \E i \in DOMAIN reqs : Serve(i, "extract", Extracted(reqs[i], fs))
Remove == \E i \in DOMAIN reqs : Serve(i, "remove", Removed(reqs[i], fs))
AnalyzeVision == \E i \in DOMAIN reqs : Serve(i, "analyze", AnalyzedBy(reqs[i], fs))
Execute == \E i \in DOMAIN reqs : Serve(i, "execute", Executed(reqs[i], fs))

\* the request served with no other request in flight
RECURSIVE RunAlone(_, _)
RunAlone(r, files) ==
    IF r.pc = "done" THEN r
    ELSE LET out == StepOf(r, files) IN RunAlone(out.req, out.files)

Filenames == {"a", "b"}

InitServe ==
    /\ fs_init = {Uploaded("a"), Uploaded("b"), Processed("formatted_", "b")}
    /\ fs = fs_init
    /\ reqs \in {<<Rendering(NewRequest(e1, "a", c1), o1), NewRequest(e2, f2, c2)>> :
                     e1 \in Endpoints, c1 \in {"docx2pdf", "unavailable"},
                     o1 \in BOOLEAN,
                     e2 \in Endpoints, f2 \in Filenames, c2 \in Converters}
    /\ ai \in {"answers", "not_configured"}
    /\ complete_vision = [structure |-> [sections |-> <<>>, paragraphs |-> <<>>]]
    /\ analysis = NotCalled
    /\ first_issues = <<>>
    /\ InitPlanner
    /\ InitValidator
    /\ doc = DocTen
    /\ doc_init = doc
    /\ action_plan = <<>>
    /\ sorted_plan = <<>>
    /\ idx = 0
    /\ results = <<>>
    /\ actions_log = <<>>
    /\ pc = "idle"
    /\ calls = 0
    /\ doc_at_end = <<>>

idleWhileServing ==
    <<execVars, planVars, complete_vision, ai, analysis, first_issues, validateVars>>

NextServe ==
    \/ Locate /\ UNCHANGED idleWhileServing
    \/ Convert /\ UNCHANGED idleWhileServing
    \/ Check /\ UNCHANGED idleWhileServing
    \/ Extract /\ UNCHANGED idleWhileServing
    \/ Remove /\ UNCHANGED idleWhileServing
    \/ AnalyzeVision /\ UNCHANGED idleWhileServing
    \/ Execute /\ UNCHANGED idleWhileServing

SpecServe == InitServe /\ [][NextServe]_vars

BuildsVision(r) ==
    r.endpoint \in {"complete-vision", "analyze-structure", "smart-format"}

\* C15: when the conversion to PDF fails (returns false), every entry point
\* that builds a Vision (complete-vision, analyze-structure, smart-format)
\* completes without error, with a Vision whose visual and visual_margins
\* are null, and its result carries a degraded-mode note.
C15_DegradedModeNoted ==
    \A i \in DOMAIN reqs :
        (/\ BuildsVision(reqs[i])
         /\ reqs[i].pc \in {"analyze", "execute", "done"}
         /\ reqs[i].docx_path # NoPath
         /\ ~reqs[i].conversion_success) =>
            /\ reqs[i].visual = None
            /\ reqs[i].visual_margins = None
            /\ reqs[i].note
            /\ reqs[i].pc = "done" => reqs[i].status = 200

\* C20: for every interleaving of two requests, two requests for the same
\* filename included, each request returns what it returns when served
\* alone, and neither fails because of the other.
C20_SameResultAsAlone ==
    \A i \in DOMAIN reqs :
        reqs[i].pc = "done" =>
            reqs[i] = RunAlone(Rendering(NewRequest(reqs[i].endpoint,
                                                    reqs[i].filename,
                                                    reqs[i].converter),
                                         reqs[i].opens), fs_init)

\* some font found on the first three pages is an Arial or a Times
HasCorrectFont ==
    \E n \in 1..Min2(3, Len(pdf)) :
        \E i \in 1..Len(PageSpans(pdf[n])) :
            \/ Contains(PageSpans(pdf[n])[i].font, <<"A", "r", "i", "a", "l">>)
            \/ Contains(PageSpans(pdf[n])[i].font, <<"T", "i", "m", "e", "s">>)

Clamp(x, low, high) == Max2(low, Min2(high, x))

FontsMeasured == validation.called /\ "main_size" \in DOMAIN validation.value.fonts

\* the distance of the dominant size from 12 pt, in tenths
SizeOff == Abs(validation.value.fonts.main_size - 120)

\* C21 as stated: the score of validate_fonts is 50 for a correct font plus
\* 50 - |dominant size - 12| * 5 clamped to [0, 50]; the size is correct iff
\* the dominant size is within 2 pt of 12, and the category is valid iff the
\* font and the size are correct.
C21_SizeScoreProportional ==
    FontsMeasured =>
        /\ validation.value.fonts.score
               = (IF HasCorrectFont THEN 500 ELSE 0) + Clamp(500 - SizeOff * 5, 0, 500)
        /\ validation.value.fonts.valid <=> (HasCorrectFont /\ SizeOff <= 20)

\* C21 amended: the size part of the score is the full 50 whenever the
\* dominant size is within 2 pt of 12, and 50 - |dominant size - 12| * 5
\* clamped to [0, 50] otherwise.
C21_SizeScoreFullWithinTolerance ==
    FontsMeasured =>
        /\ validation.value.fonts.score
               = (IF HasCorrectFont THEN 500 ELSE 0)
                 + (IF SizeOff <= 20 THEN 500 ELSE Clamp(500 - SizeOff * 5, 0, 500))
        /\ validation.value.fonts.valid <=> (HasCorrectFont /\ SizeOff <= 20)

\* fonts were validated on a document whose dominant size is 10 pt
C21_Witness ==
    /\ FontsMeasured
    /\ validation.value.fonts.main_size = 100
    /\ validation.value.fonts.valid

AlignmentMeasured ==
    validation.called /\ "left_margin_std" \in DOMAIN validation.value.alignment

\* the standard deviations of the left edges and of the right-side gaps of
\* the lines of page 1, in hundredths of a point
LeftEdges == LET Left(line) == line.bbox[1] IN MapSeq(Left, PageLines(pdf[1]))
RightGaps == LET Right(line) == pdf[1].width - line.bbox[3]
             IN MapSeq(Right, PageLines(pdf[1]))
Deviation(values) == IF Len(values) > 1 THEN stdev(values) ELSE 0

\* what a side loses at 2 points per point of deviation above 10
Above10(std) == 2 * Max2(0, std - 1000)

\* hundredths rounded to tenths
ToTenths(hundredths) == (hundredths + 5) \div 10

\* C22 as stated: validate_alignment is valid iff both deviations are below
\* 10 pt, and its score is 100 less 2 points for every point of deviation
\* above 10 on each side, the two penalties summed and the result floored
\* at 0.
C22_PenaltiesUnbounded ==
    AlignmentMeasured =>
        /\ validation.value.alignment.valid
               <=> (Deviation(LeftEdges) < 1000 /\ Deviation(RightGaps) < 1000)
        /\ validation.value.alignment.score
               = ToTenths(Max2(0, 10000 - Above10(Deviation(LeftEdges))
                                        - Above10(Deviation(RightGaps))))

\* C22 amended: each side loses 2 points for every point of deviation above
\* 10 but at most 40, so the score is never below 20.
C22_PenaltiesCappedAt40 ==
    AlignmentMeasured =>
        /\ validation.value.alignment.valid
               <=> (Deviation(LeftEdges) < 1000 /\ Deviation(RightGaps) < 1000)
        /\ validation.value.alignment.score
               = ToTenths(10000 - Min2(4000, Above10(Deviation(LeftEdges)))
                                - Min2(4000, Above10(Deviation(RightGaps))))
        /\ validation.value.alignment.score >= 200

\* alignment was validated on a page whose lines deviate by more than 30 pt
\* on both sides
C22_Witness ==
    /\ AlignmentMeasured
    /\ validation.value.alignment.left_margin_std > 3000
    /\ validation.value.alignment.right_margin_std > 3000
    /\ validation.value.alignment.score = 200

\* the renders request i wrote that are still there and that no other
\* request has written too
Leftover(i) ==
    {path \in reqs[i].created \cap fs :
        \A j \in DOMAIN reqs : j # i => path \notin reqs[j].created}

\* C23: every temporary render a request creates is deleted by the time the
\* request returns, on the success path and on every error path after the
\* render was created.
C23_NoRenderOutlivesRequest ==
    \A i \in DOMAIN reqs : reqs[i].pc = "done" => Leftover(i) = {}

\* C24: an action whose result has status 'error' leaves the document
\* unchanged: after a plan of one action that failed, every section margin
\* and every paragraph and run property is as it was before the action.
C24_FailedActionChangesNothing ==
    (/\ pc \in {"returned", "raised"}
     /\ calls = 1
     /\ Len(action_plan) = 1
     /\ results[1].status = "error") => doc = doc_init

\* C25: the detect-plan-execute loop converges in one round: after a call
\* that executed the plan made for the document, every action succeeding,
\* the document that results has no inconsistency and its plan is empty.
PlanExecuted ==
    /\ pc = "returned"
    /\ calls = 1
    /\ action_plan = Planned(doc_init)
    /\ Len(action_plan) > 0
    /\ \A i \in 1..Len(results) : results[i].status = "success"

C25_ConvergesInOneRound ==
    PlanExecuted => /\ Detected(doc) = <<>>
                    /\ Planned(doc) = <<>>

\* C26: the action log is cumulative over the executor's calls. When the
\* k-th call has returned, the log holds k times one entry per action of the
\* plan, each in execution order; get_summary's total is the sum of the plan
\* lengths and successes and failures add up to it; the returned list holds
\* the entries of this call alone, with the statuses of the log's last ones.
C26_LogIsCumulative ==
    pc = "returned" =>
        LET n == Len(sorted_plan)
            summary == get_summary
        IN /\ Len(actions_log) = calls * n
           /\ \A j \in 1..Len(actions_log) :
                 LET action == sorted_plan[((j - 1) % n) + 1]
                 IN /\ actions_log[j].action = action.action
                    /\ actions_log[j].target = Get(action, "target", NoneStr)
           /\ summary.total_actions = calls * Len(action_plan)
           /\ summary.successful_actions + summary.failed_actions
                  = summary.total_actions
           /\ Len(results) = n
           /\ \A i \in 1..n :
                 /\ results[i].action_index = i - 1
                 /\ results[i].action = sorted_plan[i]
                 /\ results[i].status = actions_log[(calls - 1) * n + i].status

\* a second call has returned a plan of several actions, of which one failed
\* and one succeeded
C26_Witness ==
    /\ pc = "returned"
    /\ calls = 2
    /\ Len(action_plan) >= 2
    /\ get_summary.successful_actions > 0
    /\ get_summary.failed_actions > 0
    /\ get_summary.total_actions = 2 * Len(action_plan)

\* C27: the priorities of a plan the planner returns are 1, 2, ..., n in
\* list order, whichever categories are absent, so the executor's sort by
\* priority leaves the plan in the planner's order.
C27_PrioritiesAreOneToN ==
    Len(first_out) > 0 =>
        /\ \A i \in 1..Len(plan_out) : plan_out[i].priority = i
        /\ SortedPlan(plan_out) = plan_out

\* a plan of several actions with categories absent before its last one: no
\* font and no alignment action, an indent action
C27_Witness ==
    /\ Len(first_out) > 0
    /\ Len(plan_out) >= 2
    /\ ~\E i \in 1..Len(plan_out) : plan_out[i].action \in {"fix_font", "fix_alignment"}
    /\ plan_out[Len(plan_out)].action = "fix_indent"

\* C28: the action list smart-format executes does not depend on what the
\* AI answers: for the same document, an answer with issues and a plan of
\* its own, an answer without them and a failed answer all yield the plan
\* the analysis of this state yields, and every action of it is one the
\* rule-based planner builds.
ObjectAnswers == {"raises", "unparsable", "no_issues_key", "answers"}

RuleBasedActions ==
    {PlannedMargin(1)}
    \cup {PlannedFont(p) : p \in 1..2}
    \cup {PlannedSpacing(p) : p \in 1..3}
    \cup {PlannedAlignment(p) : p \in 1..4}
    \cup {PlannedIndent(p) : p \in 1..5}

C29_InputNeverModified ==
    \A i \in DOMAIN reqs :
        reqs[i].endpoint = "smart-format" =>
            LET r == reqs[i]
                input == Uploaded(r.filename)
                output == Processed("smart_formatted_", r.filename)
            IN /\ input \notin r.saved \cup r.created
               /\ input \in fs_init => input \in fs
               /\ r.saved \subseteq {output}
               /\ r.saved # {} => r.pc = "done" /\ r.analysis.actions > 0
               /\ (r.pc = "done" /\ r.status = 200 /\ r.analysis.actions = 0) =>
                      /\ r.saved = {}
                      /\ ~r.success
                      /\ output \in fs =>
                             \E j \in DOMAIN reqs : output \in reqs[j].saved

\* one smart-format request has executed its plan and saved the result,
\* another has found nothing to fix
C29_Witness ==
    \E i, j \in DOMAIN reqs :
        /\ reqs[i].endpoint = "smart-format"
        /\ reqs[i].pc = "done"
        /\ reqs[i].saved = {Processed("smart_formatted_", reqs[i].filename)}
        /\ reqs[i].saved \subseteq fs
        /\ reqs[j].endpoint = "smart-format"
        /\ reqs[j].pc = "done"
        /\ reqs[j].status = 200
        /\ reqs[j].analysis.actions = 0
        /\ Processed("smart_formatted_", reqs[j].filename) \notin fs

\* C30: in validate_document_quality the verdicts agree: whenever margins,
\* fonts, spacing and alignment are all valid, overall_valid is true, the
\* overall score being at least 90.
C30_AllValidIsOverallValid ==
    (validation.called /\ \A category \in {"margins", "fonts", "spacing", "alignment"} :
                              validation.value[category].valid) =>
        /\ validation.value.overall_valid
        /\ validation.value.overall_score >= overall_valid_threshold
====
